---- MODULE Spec2Model ----
(***************************************************************************)
(* A model of i18n_sync: the I18nSync object (sync.py), its translation    *)
(* model (models.py), and the files it reads and writes.                   *)
(*                                                                         *)
(* Text is a sequence of characters, each a one-character string.  The     *)
(* names interpolated into the default file header (the section name,      *)
(* the suffix .strings, QRServe, the display name of the language) are one *)
(* element each: they stand for a run of letters, and no pattern of the    *)
(* program tells one letter from another.                                  *)
(***************************************************************************)
EXTENDS Integers, Sequences, FiniteSets, TLC

VARIABLES
    strings_fs,    \* <resources>/<lang>.lproj/<Section>.strings : text or NoFile
    dict_fs,       \* <resources>/<lang>.lproj/<Section>.stringsdict : plist or NoFile
    lproj_dirs,    \* the set of <lang>.lproj directories that exist
    yaml,          \* the YAML file: NoFile or [sections, plurals]
    translations,  \* I18nSync.translations (TranslationsData.sections)
    plurals,       \* I18nSync.plurals
    warnings,      \* the Warning: Missing ... lines printed by the last call
    calls,         \* the calls made so far, in order, each with how it ended
    prev_fs,       \* strings_fs as it was before the last call (history)
    res_fs,        \* the files under res_path: a function from path to text
    res_dirs,      \* the directories under res_path that exist
    android_log,   \* the <<language, path>> of each document apply_android wrote
    esc_arg,       \* argument of a call of one pure function on its own
    esc_res,       \* its result so far
    esc_pc         \* its position

res_vars == <<res_fs, res_dirs, android_log>>

vars == <<strings_fs, dict_fs, lproj_dirs, yaml, translations, plurals,
          warnings, calls, prev_fs, res_vars, esc_arg, esc_res, esc_pc>>

----------------------------------------------------------------------------
(* Characters *)

QUOTE  == "\""
BSLASH == "\\"
NL     == "\n"
SP     == " "

\* A path of the file system: absent, or a file with its content.
NoFile == [exists |-> FALSE, content |-> <<>>]
File(text) == [exists |-> TRUE, content |-> text]

\* str.isspace() on the characters of the model (re's \s, str.rstrip()).
IsSpace(c) == c \in {SP, NL}

\* The characters of the model in code point order.
CharOrder ==
    <<NL, SP, QUOTE, "$", "%", "&", "'", "*", "+", "-", ".", "/", "0", "1",
      "2", "3", "4", "5", "6", "7", "8", "9", ";", "<", "=", ">", "@", "A",
      "B", "C", "D", "E", "F", "G", "H", "I", "J", "K", "L", "M", "N", "O",
      "P", "Q", "R", "S", "T", "U", "V", "W", "X", "Y", "Z", BSLASH, "a",
      "b", "c", "d", "e", "f", "g", "h", "i", "j", "k", "l", "m", "n", "o",
      "p", "q", "r", "s", "t", "u", "v", "w", "x", "y", "z">>

\* ord(c), up to the order it gives: Python's sorted() on str compares by it.
Ord(c) == CHOOSE i \in 1..Len(CharOrder) : CharOrder[i] = c

\* s < t for two str of characters, as Python compares them.
RECURSIVE StrLess(_, _)
StrLess(s, t) ==
    IF t = <<>> THEN FALSE
    ELSE IF s = <<>> THEN TRUE
    ELSE IF Ord(Head(s)) # Ord(Head(t)) THEN Ord(Head(s)) < Ord(Head(t))
    ELSE StrLess(Tail(s), Tail(t))

----------------------------------------------------------------------------
(* str.replace, for the four replacements the string-table code makes *)

\* s.replace(c1 + c2, new): left to right, non-overlapping.
RECURSIVE ReplacePair(_, _, _, _)
ReplacePair(s, c1, c2, new) ==
    IF Len(s) < 2 THEN s
    ELSE IF s[1] = c1 /\ s[2] = c2
         THEN new \o ReplacePair(SubSeq(s, 3, Len(s)), c1, c2, new)
         ELSE <<s[1]>> \o ReplacePair(Tail(s), c1, c2, new)

\* s.replace(c, new)
RECURSIVE ReplaceChar(_, _, _)
ReplaceChar(s, c, new) ==
    IF s = <<>> THEN <<>>
    ELSE (IF Head(s) = c THEN new ELSE <<Head(s)>>) \o ReplaceChar(Tail(s), c, new)

\* _unescape_strings_value
UnescapeStringsValue(value) ==
    ReplacePair(ReplacePair(value, BSLASH, QUOTE, <<QUOTE>>), BSLASH, BSLASH, <<BSLASH>>)

EscapeSwapped(value) ==
    ReplaceChar(ReplaceChar(value, QUOTE, <<BSLASH, QUOTE>>), BSLASH, <<BSLASH, BSLASH>>)

\* _escape_strings_value
EscapeStringsValue(value) ==
    ReplaceChar(ReplaceChar(value, BSLASH, <<BSLASH, BSLASH>>), QUOTE, <<BSLASH, QUOTE>>)

----------------------------------------------------------------------------
(* The pattern of _parse_strings_file: a quoted key of one or more         *)
(* non-quote characters, whitespace, an equals sign, whitespace, a quoted  *)
(* value made of tokens (a character that is neither quote nor backslash,  *)
(* or a backslash and any character but a newline), a semicolon,           *)
(* whitespace and an optional line comment.                                *)

At(t, i) == IF i >= 1 /\ i <= Len(t) THEN t[i] ELSE "EOF"

\* \s* from i: the first index at or after i that holds no whitespace.
RECURSIVE SkipSpace(_, _)
SkipSpace(t, i) ==
    IF i <= Len(t) /\ IsSpace(t[i]) THEN SkipSpace(t, i + 1) ELSE i

\* A run of non-quote characters from i: the first index at or after i that holds a quote (or Len+1).
RECURSIVE NextQuote(_, _)
NextQuote(t, i) ==
    IF i <= Len(t) /\ t[i] # QUOTE THEN NextQuote(t, i + 1) ELSE i

\* The value tokens from i, greedy: the index after the last token.  A token
\* never starts with a quote, so giving tokens back finds no other match.
RECURSIVE ValueEnd(_, _)
ValueEnd(t, i) ==
    IF i > Len(t) THEN i
    ELSE IF t[i] = QUOTE THEN i
    ELSE IF t[i] = BSLASH
         THEN IF i + 1 <= Len(t) /\ t[i + 1] # NL THEN ValueEnd(t, i + 2) ELSE i
         ELSE ValueEnd(t, i + 1)

\* .* from i: the index of the end of the line.
RECURSIVE LineEnd(_, _)
LineEnd(t, i) ==
    IF i <= Len(t) /\ t[i] # NL THEN LineEnd(t, i + 1) ELSE i

\* The match of the pattern that starts at i, if there is one.
MatchAt(t, i) ==
    LET kq == NextQuote(t, i + 1)           \* the key's closing quote
        eq == SkipSpace(t, kq + 1)
        vq == SkipSpace(t, eq + 1)          \* the value's opening quote
        ve == ValueEnd(t, vq + 1)           \* the value's closing quote
        ws == SkipSpace(t, ve + 2)
        ok == /\ At(t, i) = QUOTE
              /\ kq > i + 1 /\ At(t, kq) = QUOTE
              /\ At(t, eq) = "="
              /\ At(t, vq) = QUOTE
              /\ At(t, ve) = QUOTE /\ At(t, ve + 1) = ";"
    IN  IF ok
        THEN [ok |-> TRUE,
              key |-> SubSeq(t, i + 1, kq - 1),
              raw |-> SubSeq(t, vq + 1, ve - 1),
              end |-> IF At(t, ws) = "/" /\ At(t, ws + 1) = "/"
                      THEN LineEnd(t, ws + 2) ELSE ws]
        ELSE [ok |-> FALSE, key |-> <<>>, raw |-> <<>>, end |-> i + 1]

\* re.finditer(pattern, content): the matches from index i on, in order.
RECURSIVE FindAll(_, _)
FindAll(t, i) ==
    IF i > Len(t) THEN <<>>
    ELSE LET m == MatchAt(t, i)
         IN  IF m.ok THEN <<m>> \o FindAll(t, m.end) ELSE FindAll(t, i + 1)

----------------------------------------------------------------------------
(* dict: a sequence of <<key, value>> pairs with distinct keys, in insertion *)
(* order.                                                                    *)

DictHas(d, k) == \E i \in 1..Len(d) : d[i][1] = k

\* d[k]
DictGet(d, k) == d[CHOOSE i \in 1..Len(d) : d[i][1] = k][2]

\* d[k] = v: in place when k is a key of d, at the end when it is not.
DictSet(d, k, v) ==
    IF DictHas(d, k)
    THEN [i \in 1..Len(d) |-> IF d[i][1] = k THEN <<k, v>> ELSE d[i]]
    ELSE Append(d, <<k, v>>)

\* list(d.keys())
DictKeys(d) == [i \in 1..Len(d) |-> d[i][1]]

\* set(d.keys())
DictKeySet(d) == {d[i][1] : i \in 1..Len(d)}

\* sorted(S) for a set S of str.
RECURSIVE Sorted(_)
Sorted(S) ==
    IF S = {} THEN <<>>
    ELSE LET m == CHOOSE x \in S : \A y \in S \ {x} : StrLess(x, y)
         IN  <<m>> \o Sorted(S \ {m})

----------------------------------------------------------------------------
(* models.py *)

EN == <<"e", "n">>
DE == <<"d", "e">>
RU == <<"r", "u">>

AddKeyReset(sections, name, key, lang, value) ==
    LET keys == IF DictHas(sections, name) THEN DictGet(sections, name) ELSE <<>>
    IN  DictSet(sections, name, DictSet(keys, key, <<<<lang, value>>>>))

\* StringsSection.add_key on the section named name of sections, after
\* TranslationsData.add_section(name).
AddKey(sections, name, key, lang, value) ==
    LET keys  == IF DictHas(sections, name) THEN DictGet(sections, name) ELSE <<>>
        trans == IF DictHas(keys, key) THEN DictGet(keys, key) ELSE <<>>
    IN  DictSet(sections, name, DictSet(keys, key, DictSet(trans, lang, value)))

\* TranslationsData.add_section
AddSection(sections, name) ==
    IF DictHas(sections, name) THEN sections ELSE Append(sections, <<name, <<>>>>)

\* TranslationsData.get_all_languages
GetAllLanguages(sections) ==
    UNION {UNION {DictKeySet(sections[i][2][j][2]) : j \in 1..Len(sections[i][2])}
           : i \in 1..Len(sections)}

LangsUnsorted(trans) == trans

\* The sorted_langs of to_yaml_dict and _save_yaml: en first when present,
\* then the other languages in sorted order.
SortedLangs(trans) ==
    LET rest == Sorted(DictKeySet(trans) \ {EN})
    IN  (IF DictHas(trans, EN) THEN <<<<EN, DictGet(trans, EN)>>>> ELSE <<>>)
        \o [i \in 1..Len(rest) |-> <<rest[i], DictGet(trans, rest[i])>>]

\* TranslationsData.to_yaml_dict: sections and keys in insertion order.
ToYamlDict(sections) ==
    [i \in 1..Len(sections) |->
        <<sections[i][1],
          [j \in 1..Len(sections[i][2]) |->
              <<sections[i][2][j][1], SortedLangs(sections[i][2][j][2])>>]>>]

\* The loops of from_yaml_dict over the languages of a key, the keys of a
\* section and the sections of the document.
RECURSIVE FromLangs(_, _, _, _)
FromLangs(acc, name, key, trans) ==
    IF trans = <<>> THEN acc
    ELSE FromLangs(AddKey(acc, name, key, Head(trans)[1], Head(trans)[2]),
                   name, key, Tail(trans))

RECURSIVE FromKeys(_, _, _)
FromKeys(acc, name, keys) ==
    IF keys = <<>> THEN acc
    ELSE FromKeys(FromLangs(acc, name, Head(keys)[1], Head(keys)[2]), name, Tail(keys))

RECURSIVE FromSections(_, _)
FromSections(acc, data) ==
    IF data = <<>> THEN acc
    ELSE FromSections(FromKeys(AddSection(acc, Head(data)[1]), Head(data)[1], Head(data)[2]),
                      Tail(data))

\* TranslationsData.from_yaml_dict
FromYamlDict(data) == FromSections(<<>>, data)

----------------------------------------------------------------------------
(* sync.py: the string-table parser and writer *)

\* I18nSync.strings_files
StringsFilesWithOther == <<"Localizable", "InfoPlist", "Other">>

StringsFiles == <<"Localizable", "InfoPlist">>

\* The loop of _parse_strings_file over the matches.
RECURSIVE AddMatches(_, _, _, _)
AddMatches(sections, name, lang, ms) ==
    IF ms = <<>> THEN sections
    ELSE AddMatches(AddKey(sections, name, Head(ms).key, lang,
                           UnescapeStringsValue(Head(ms).raw)),
                    name, lang, Tail(ms))

\* _parse_strings_file
ParseStringsFile(sections, content, lang, name) ==
    AddMatches(AddSection(sections, name), name, lang, FindAll(content, 1))

\* str.rstrip()
RECURSIVE RStrip(_)
RStrip(t) ==
    IF t # <<>> /\ IsSpace(t[Len(t)]) THEN RStrip(SubSeq(t, 1, Len(t) - 1)) ELSE t

\* Whether the header pattern of _get_file_header (a quoted key and an equals
\* sign at the start of a line) matches at i.
KeyLineAt(t, i) ==
    LET kq == NextQuote(t, i + 1)
    IN  /\ i = 1 \/ At(t, i - 1) = NL
        /\ At(t, i) = QUOTE
        /\ kq > i + 1 /\ At(t, kq) = QUOTE
        /\ At(t, SkipSpace(t, kq + 1)) = "="

\* re.search of that pattern with re.MULTILINE: the start of the first match,
\* 0 when there is none.
FirstKeyLine(t) ==
    IF \E i \in 1..Len(t) : KeyLineAt(t, i)
    THEN CHOOSE i \in 1..Len(t) :
            KeyLineAt(t, i) /\ \A j \in 1..(i - 1) : ~KeyLineAt(t, j)
    ELSE 0

\* lang_names.get(lang, lang), as one element of text.
LangName(lang) ==
    CASE lang = EN -> <<"English">>
      [] lang = DE -> <<"German">>
      [] lang = RU -> <<"Russian">>
      [] OTHER     -> lang

\* The default header of _get_file_header.
DefaultHeader(lang, file_type) ==
    <<"/", "*", NL, SP, SP, file_type, ".strings", NL, SP, SP, "QRServe", NL,
      NL, SP, SP>> \o LangName(lang) \o <<NL, "*", "/">>

GetFileHeaderNoStrip(file, lang, file_type) ==
    LET at     == FirstKeyLine(file.content)
        header == SubSeq(file.content, 1, at - 1)
    IN  IF file.exists /\ at > 0 /\ header # <<>> THEN header
        ELSE DefaultHeader(lang, file_type)

\* _get_file_header
GetFileHeader(file, lang, file_type) ==
    LET at     == FirstKeyLine(file.content)
        header == RStrip(SubSeq(file.content, 1, at - 1))
    IN  IF file.exists /\ at > 0 /\ header # <<>> THEN header
        ELSE DefaultHeader(lang, file_type)

\* One line of the body of _write_strings_file.
KeyLine(key, value) ==
    <<QUOTE>> \o key \o <<QUOTE, SP, "=", SP, QUOTE>> \o value \o <<QUOTE, ";">>

\* '\n'.join(lines)
RECURSIVE JoinLines(_)
JoinLines(lines) ==
    IF lines = <<>> THEN <<>>
    ELSE IF Len(lines) = 1 THEN lines[1]
    ELSE lines[1] \o <<NL>> \o JoinLines(Tail(lines))

KeysUnsorted(keys) == DictKeys(keys)

\* sorted(section.keys.keys())
SortedKeys(keys) == Sorted(DictKeySet(keys))

\* The lines of the body of _write_strings_file, for the keys ks in order.
BodyLines(keys, ks, lang) ==
    [i \in 1..Len(ks) |->
        LET trans == DictGet(keys, ks[i])
        IN  IF DictHas(trans, lang)
            THEN KeyLine(ks[i], EscapeStringsValue(DictGet(trans, lang)))
            ELSE KeyLine(ks[i], <<>>)]

\* The warnings _write_strings_file prints, in order.
RECURSIVE MissingWarnings(_, _, _, _)
MissingWarnings(name, keys, ks, lang) ==
    IF ks = <<>> THEN <<>>
    ELSE (IF DictHas(DictGet(keys, Head(ks)), lang) THEN <<>>
          ELSE <<[section |-> name, key |-> Head(ks), lang |-> lang]>>)
         \o MissingWarnings(name, keys, Tail(ks), lang)

\* The content _write_strings_file writes to a path that holds file.
WriteStringsFile(file, lang, name, keys) ==
    LET header  == GetFileHeader(file, lang, name)
        lines   == (IF header # <<>> THEN <<header>> ELSE <<>>)
                   \o BodyLines(keys, SortedKeys(keys), lang)
        content == JoinLines(lines)
    IN  IF content # <<>> /\ content[Len(content)] # NL
        THEN content \o <<NL>> ELSE content

----------------------------------------------------------------------------
(* sync.py: plural dictionaries and the YAML file *)

\* The plural categories, in the order of _parse_stringsdict_file.
Quantities == <<"zero", "one", "two", "few", "many", "other">>

NoPlist == [exists |-> FALSE, entries |-> <<>>]
Plist(entries) == [exists |-> TRUE, entries |-> entries]

\* plural_forms: the categories of plural_dict that are present, in order.
PluralForms(plural_dict) ==
    LET present == SelectSeq(Quantities, LAMBDA q : DictHas(plural_dict, q))
    IN  [i \in 1..Len(present) |-> <<present[i], DictGet(plural_dict, present[i])>>]

\* _parse_stringsdict_file.  An entry of the plist is a record: is_dict, var
\* (the name in the format key, the empty string when the pattern finds none),
\* sub (what the entry holds under the name var: nothing, a dictionary, or
\* a value of another type, such as a string), type (its
\* NSStringFormatSpecTypeKey) and forms (its other keys).
\* plural_dict.get raises AttributeError when the value the entry holds under
\* the name is not a dictionary.
EntryRaises(entry) == entry.is_dict /\ entry.var # "" /\ entry.sub = "other"

StringsdictRaises(entries) == \E i \in 1..Len(entries) : EntryRaises(entries[i][2])

\* The plural table after the loop over the entries, or when the loop is left
\* by the exception.
RECURSIVE ParseStringsdictFile(_, _, _)
ParseStringsdictFile(pl, entries, lang) ==
    IF entries = <<>> \/ EntryRaises(Head(entries)[2]) THEN pl
    ELSE LET key   == Head(entries)[1]
             entry == Head(entries)[2]
             forms == PluralForms(entry.forms)
             skip  == \/ ~entry.is_dict
                      \/ entry.var = ""
                      \/ entry.sub = "absent"
                      \/ entry.type # "NSStringPluralRuleType"
                      \/ forms = <<>>
             langs == IF DictHas(pl, key) THEN DictGet(pl, key) ELSE <<>>
         IN  ParseStringsdictFile(
                 IF skip THEN pl ELSE DictSet(pl, key, DictSet(langs, lang, forms)),
                 Tail(entries), lang)

NoYaml == [exists |-> FALSE, sections |-> <<>>, plurals |-> <<>>]

\* sorted(self.plurals.keys())
SortedPluralGroups(pl) == Sorted(DictKeySet(pl))

\* The document _save_yaml dumps: the sections of to_yaml_dict, then the
\* Plurals entry when the plural table is not empty (plurals # <<>>).
SaveYaml(sections, pl) ==
    LET groups == SortedPluralGroups(pl)
    IN  [exists   |-> TRUE,
         sections |-> ToYamlDict(sections),
         plurals  |-> [i \in 1..Len(groups) |->
                          <<groups[i], SortedLangs(DictGet(pl, groups[i]))>>]]

\* _process_language_directory, for the section names from the i-th on.
RECURSIVE ProcessLanguageDirectory(_, _, _, _, _)
ProcessLanguageDirectory(tp, sfs, dfs, lang, i) ==
    IF i > Len(StringsFiles) \/ tp.raised THEN tp
    ELSE LET name == StringsFiles[i]
             sf   == sfs[<<lang, name>>]
             df   == dfs[<<lang, name>>]
         IN  ProcessLanguageDirectory(
                 [t |-> IF sf.exists
                        THEN ParseStringsFile(tp.t, sf.content, lang, name)
                        ELSE tp.t,
                  p |-> IF df.exists
                        THEN ParseStringsdictFile(tp.p, df.entries, lang)
                        ELSE tp.p,
                  raised |-> df.exists /\ StringsdictRaises(df.entries)],
                 sfs, dfs, lang, i + 1)

\* The loop of extract over the directories, in the order of the glob; tp
\* holds the translations, the plural table, and whether an exception has
\* left the loop.
RECURSIVE ProcessDirectories(_, _, _, _)
ProcessDirectories(tp, sfs, dfs, order) ==
    IF order = <<>> \/ tp.raised THEN tp
    ELSE ProcessDirectories(ProcessLanguageDirectory(tp, sfs, dfs, Head(order), 1),
                            sfs, dfs, Tail(order))

\* The orders in which a set can be enumerated.
Orders(S) ==
    {o \in [1..Cardinality(S) -> S] : \A i, j \in 1..Cardinality(S) : o[i] = o[j] => i = j}

\* _apply_section and _write_section_to_language for the languages in order:
\* the files after them, and the warnings printed.
RECURSIVE ApplySection(_, _, _, _)
ApplySection(fw, name, keys, order) ==
    IF order = <<>> THEN fw
    ELSE LET lang == Head(order)
             path == <<lang, name>>
         IN  ApplySection(
                 [fs   |-> [fw.fs EXCEPT ![path] =
                               File(WriteStringsFile(fw.fs[path], lang, name, keys))],
                  warn |-> fw.warn \o MissingWarnings(name, keys, SortedKeys(keys), lang)],
                 name, keys, Tail(order))

\* The loop of apply over strings_files.
RECURSIVE ApplySections(_, _, _, _)
ApplySections(fw, sections, order, i) ==
    IF i > Len(StringsFiles) THEN fw
    ELSE ApplySections(
             IF DictHas(sections, StringsFiles[i])
             THEN ApplySection(fw, StringsFiles[i],
                               DictGet(sections, StringsFiles[i]), order)
             ELSE fw,
             sections, order, i + 1)

----------------------------------------------------------------------------
(* sync.py, Android support: language codes *)

\* IOS_TO_ANDROID_LANG, in the order of the source
IOS_TO_ANDROID_LANG ==
    <<<<<<"z", "h", "-", "H", "a", "n", "s">>,
        <<"z", "h", "-", "r", "C", "N">>>>,
      <<<<"z", "h", "-", "H", "a", "n", "t">>,
        <<"z", "h", "-", "r", "T", "W">>>>,
      <<<<"z", "h", "-", "H", "K">>,
        <<"z", "h", "-", "r", "H", "K">>>>,
      <<<<"p", "t", "-", "B", "R">>,
        <<"p", "t", "-", "r", "B", "R">>>>,
      <<<<"p", "t", "-", "P", "T">>,
        <<"p", "t", "-", "r", "P", "T">>>>,
      <<<<"e", "s", "-", "4", "1", "9">>,
        <<"b", "+", "e", "s", "+", "4", "1", "9">>>>,
      <<<<"e", "s", "-", "M", "X">>,
        <<"e", "s", "-", "r", "M", "X">>>>,
      <<<<"e", "n", "-", "A", "U">>,
        <<"e", "n", "-", "r", "A", "U">>>>,
      <<<<"e", "n", "-", "C", "A">>,
        <<"e", "n", "-", "r", "C", "A">>>>,
      <<<<"e", "n", "-", "G", "B">>,
        <<"e", "n", "-", "r", "G", "B">>>>,
      <<<<"e", "n", "-", "U", "S">>,
        <<"e", "n", "-", "r", "U", "S">>>>,
      <<<<"f", "r", "-", "C", "A">>,
        <<"f", "r", "-", "r", "C", "A">>>>,
      <<<<"s", "r", "-", "L", "a", "t", "n">>,
        <<"b", "+", "s", "r", "+", "L", "a", "t", "n">>>>,
      <<<<"s", "r", "-", "L", "a", "t", "n", "-", "M", "E">>,
        <<"b", "+", "s", "r", "+", "L", "a", "t", "n", "+", "M", "E">>>>,
      <<<<"h", "e">>,
        <<"i", "w">>>>,
      <<<<"y", "i">>,
        <<"j", "i">>>>>>

\* IOS_TO_ANDROID_LANG.get(lang, lang)
AndroidLang(lang) ==
    IF DictHas(IOS_TO_ANDROID_LANG, lang) THEN DictGet(IOS_TO_ANDROID_LANG, lang)
    ELSE lang

FolderNameNoDefault(lang, default_lang) == <<"values-">> \o AndroidLang(lang)

\* folder_name of _write_android_strings.  The prefix is one element: it is
\* the same run of letters in every folder name.
FolderName(lang, default_lang) ==
    IF lang = default_lang THEN <<"values">> ELSE <<"values-">> \o AndroidLang(lang)

\* folder_code.startswith of b+
StartsWithBPlus(s) == Len(s) >= 2 /\ s[1] = "b" /\ s[2] = "+"

\* c1 + c2 in s
HasPair(s, c1, c2) == \E i \in 1..(Len(s) - 1) : s[i] = c1 /\ s[i + 1] = c2

IosToAndroidLocaleFolderCode(ios_lang) == AndroidLang(ios_lang)

\* _ios_to_android_locale.  Joining by - the parts of a split at + replaces
\* every + by -.
IosToAndroidLocale(ios_lang) ==
    LET folder_code == AndroidLang(ios_lang)
    IN  IF StartsWithBPlus(folder_code)
        THEN ReplaceChar(SubSeq(folder_code, 3, Len(folder_code)), "+", <<"-">>)
        ELSE IF HasPair(folder_code, "-", "r")
             THEN ReplacePair(folder_code, "-", "r", <<"-">>)
             ELSE folder_code

----------------------------------------------------------------------------
(* sync.py, Android support: placeholders and escaping *)

\* The letters of the character class of the pattern.
SpecLetters ==
    {"d", "f", "i", "u", "l", "x", "X", "o", "O", "e", "E", "g", "G", "s",
     "S", "c", "C", "p", "P", "a", "A", "b", "B", "h", "H", "n", "N"}

Digits == <<"0", "1", "2", "3", "4", "5", "6", "7", "8", "9">>
IsDigit(c) == \E d \in 1..Len(Digits) : Digits[d] = c

\* str(i) for a natural number i
RECURSIVE Decimal(_)
Decimal(i) ==
    IF i < 10 THEN <<Digits[i + 1]>> ELSE Decimal(i \div 10) \o <<Digits[(i % 10) + 1]>>

\* A run of digits from i: the first index at or after i that holds none.
RECURSIVE DigitsEnd(_, _)
DigitsEnd(t, i) == IF i <= Len(t) /\ IsDigit(t[i]) THEN DigitsEnd(t, i + 1) ELSE i

\* The match of the specifier pattern that starts at i, if there is one: a
\* percent sign not followed by digits and a dollar sign, an optional
\* precision (a dot and digits), and one type character.  The class holds the
\* letter l, so the alternative of l and a second letter is never taken; and
\* a precision that is given back leaves a dot or a digit where the type
\* must be, so the greedy match is the only one.
SpecifierAt(t, i) ==
    LET la == DigitsEnd(t, i + 1)
        pe == IF At(t, i + 1) = "." /\ DigitsEnd(t, i + 2) > i + 2
              THEN DigitsEnd(t, i + 2) ELSE i + 1
        ok == /\ At(t, i) = "%"
              /\ ~(la > i + 1 /\ At(t, la) = "$")
              /\ (At(t, pe) = "@" \/ At(t, pe) \in SpecLetters)
    IN  [ok |-> ok, start |-> i, end |-> pe + 1,
         precision |-> IF ok THEN SubSeq(t, i + 1, pe - 1) ELSE <<>>,
         type |-> At(t, pe)]

\* list(re.finditer(pattern, value)) from index i on
RECURSIVE FindSpecifiers(_, _)
FindSpecifiers(t, i) ==
    IF i > Len(t) THEN <<>>
    ELSE LET m == SpecifierAt(t, i)
         IN  IF m.ok THEN <<m>> \o FindSpecifiers(t, m.end) ELSE FindSpecifiers(t, i + 1)

\* _ios_to_android_type
IosToAndroidType(ios_type) == IF ios_type = "@" THEN "s" ELSE ios_type

\* The loop over enumerate(matches, 1): each match is replaced in result at
\* its position shifted by offset.
RECURSIVE PositionalLoop(_, _, _, _)
PositionalLoop(result, matches, i, offset) ==
    IF i > Len(matches) THEN result
    ELSE LET match       == matches[i]
             start       == match.start + offset
             end         == match.end + offset
             replacement == <<"%">> \o Decimal(i) \o <<"$">> \o match.precision
                            \o <<IosToAndroidType(match.type)>>
         IN  PositionalLoop(
                 SubSeq(result, 1, start - 1) \o replacement
                    \o SubSeq(result, end, Len(result)),
                 matches, i + 1,
                 offset + Len(replacement) - (match.end - match.start))

ConvertAlwaysPositional(value) ==
    PositionalLoop(value, FindSpecifiers(value, 1), 1, 0)

\* _convert_format_specifiers
ConvertFormatSpecifiers(value) ==
    LET matches == FindSpecifiers(value, 1)
    IN  IF matches = <<>> THEN value
        ELSE IF Len(matches) = 1
             THEN SubSeq(value, 1, matches[1].start - 1)
                  \o <<"%">> \o matches[1].precision
                  \o <<IosToAndroidType(matches[1].type)>>
                  \o SubSeq(value, matches[1].end, Len(value))
             ELSE PositionalLoop(value, matches, 1, 0)

AMP == <<"&", "a", "m", "p", ";">>
LT == <<"&", "l", "t", ";">>
GT == <<"&", "g", "t", ";">>

\* The five replacements of _escape_android_xml, in its order.
XmlReplace(value) ==
    ReplaceChar(
        ReplaceChar(
            ReplaceChar(ReplaceChar(ReplaceChar(value, "&", AMP), "<", LT), ">", GT),
            "'", <<BSLASH, "'">>),
        QUOTE, <<BSLASH, QUOTE>>)

EscapeAmpLast(value) ==
    ReplaceChar(
        ReplaceChar(
            ReplaceChar(
                ReplaceChar(ReplaceChar(ConvertFormatSpecifiers(value), "<", LT), ">", GT),
                "'", <<BSLASH, "'">>),
            QUOTE, <<BSLASH, QUOTE>>),
        "&", AMP)

\* _escape_android_xml
EscapeAndroidXml(value) == XmlReplace(ConvertFormatSpecifiers(value))

----------------------------------------------------------------------------
(* sync.py, Android support: the documents.  The markup the writer puts    *)
(* around names and values is one element per run: no character of it comes *)
(* from the data.                                                           *)

QuantitiesByName == <<"few", "many", "one", "other", "two", "zero">>

\* The quantity order of _write_android_xml.
AndroidQuantities == <<"zero", "one", "two", "few", "many", "other">>

\* The keys of all sections, one section after the other.
RECURSIVE SectionEntries(_)
SectionEntries(sections) ==
    IF sections = <<>> THEN <<>>
    ELSE Head(sections)[2] \o SectionEntries(Tail(sections))

\* all_keys of _write_android_xml: the value of lang for each key that has
\* one, a later section replacing the value of an earlier one.
RECURSIVE AllKeys(_, _, _)
AllKeys(all_keys, entries, lang) ==
    IF entries = <<>> THEN all_keys
    ELSE LET key   == Head(entries)[1]
             trans == Head(entries)[2]
         IN  AllKeys(IF DictHas(trans, lang)
                     THEN DictSet(all_keys, key, DictGet(trans, lang))
                     ELSE all_keys,
                     Tail(entries), lang)

StringKeysUnsorted(all_keys) == DictKeys(all_keys)

\* sorted(all_keys.keys())
SortedStringKeys(all_keys) == Sorted(DictKeySet(all_keys))

\* The string lines of the document.
StringLines(all_keys) ==
    LET ks == SortedStringKeys(all_keys)
    IN  [i \in 1..Len(ks) |->
            <<"    <string name=", QUOTE>> \o ks[i] \o <<QUOTE, ">">>
            \o EscapeAndroidXml(DictGet(all_keys, ks[i])) \o <<"</string>">>]

\* The item lines of a plural group, for the quantities that forms holds.
ItemLines(forms) ==
    LET present == SelectSeq(AndroidQuantities, LAMBDA q : DictHas(forms, q))
    IN  [i \in 1..Len(present) |->
            <<"        <item quantity=", QUOTE, present[i], QUOTE, ">">>
            \o EscapeAndroidXml(DictGet(forms, present[i])) \o <<"</item>">>]

\* The plural lines of the document, for the groups in order.
RECURSIVE PluralLines(_, _, _)
PluralLines(pl, groups, lang) ==
    IF groups = <<>> THEN <<>>
    ELSE LET lang_data == DictGet(pl, Head(groups))
         IN  (IF DictHas(lang_data, lang)
              THEN <<<<"    <plurals name=", QUOTE>> \o Head(groups) \o <<QUOTE, ">">>>>
                   \o ItemLines(DictGet(lang_data, lang))
                   \o <<<<"    </plurals>">>>>
              ELSE <<>>)
             \o PluralLines(pl, Tail(groups), lang)

\* The text _write_android_xml writes for lang.
AndroidXml(sections, pl, lang) ==
    JoinLines(<<<<"<?xml version=\"1.0\" encoding=\"utf-8\"?>">>, <<"<resources>">>>>
              \o StringLines(AllKeys(<<>>, SectionEntries(sections), lang))
              \o PluralLines(pl, Sorted(DictKeySet(pl)), lang)
              \o <<<<"</resources>">>>>)
    \o <<NL>>

\* The tree under res_path with no file, and a tree after write_text.
NoResFiles == [path \in {} |-> <<>>]
WriteText(fs, path, text) == (path :> text) @@ fs

\* The path of the document of a language, under res_path.
StringsXmlPath(lang, default_lang) == FolderName(lang, default_lang) \o <<"/strings.xml">>

\* The loop of apply_android over the languages, in the order of the set.
RECURSIVE WriteAndroidStrings(_, _, _, _, _)
WriteAndroidStrings(fs, sections, pl, order, default_lang) ==
    IF order = <<>> THEN fs
    ELSE WriteAndroidStrings(
             WriteText(fs, StringsXmlPath(Head(order), default_lang),
                       AndroidXml(sections, pl, Head(order))),
             sections, pl, Tail(order), default_lang)

LocalesConfigPath == <<"xml", "/locales_config.xml">>

\* The text _write_locales_config writes.
LocalesConfig(languages) ==
    LET locales == Sorted({IosToAndroidLocale(lang) : lang \in languages})
    IN  JoinLines(<<<<"<?xml version=\"1.0\" encoding=\"utf-8\"?>">>, <<"<locale-config xmlns:android=\"http://schemas.android.com/apk/res/android\">">>>>
                  \o [i \in 1..Len(locales) |->
                         <<"    <locale android:name=", QUOTE>> \o locales[i]
                         \o <<QUOTE, " />">>]
                  \o <<<<"</locale-config>">>>>)
        \o <<NL>>

----------------------------------------------------------------------------
(* The calls on the object *)

\* The calls of one run are at most MaxOps.
MaxOps == 3

\* The language codes of the model, and the paths of the resources tree.
LangCodes == {EN, DE, RU}
Paths == LangCodes \X {StringsFiles[i] : i \in 1..Len(StringsFiles)}

ExtractSavesFirst ==
    /\ Len(calls) < MaxOps
    /\ esc_pc = "idle"
    /\ lproj_dirs = {}
    /\ prev_fs' = strings_fs
    /\ warnings' = <<>>
    /\ translations' = <<>>
    /\ plurals' = <<>>
    /\ yaml' = SaveYaml(<<>>, <<>>)
    /\ calls' = Append(calls, "extract_raised")
    /\ UNCHANGED <<strings_fs, dict_fs, lproj_dirs, res_vars, esc_arg, esc_res, esc_pc>>

ExtractAccumulates ==
    /\ Len(calls) < MaxOps
    /\ esc_pc = "idle"
    /\ prev_fs' = strings_fs
    /\ warnings' = <<>>
    /\ IF lproj_dirs = {}
       THEN /\ calls' = Append(calls, "extract_raised")
            /\ UNCHANGED <<yaml, translations, plurals>>
       ELSE \E order \in Orders(lproj_dirs) :
                LET tp == ProcessDirectories([t |-> translations, p |-> plurals,
                                              raised |-> FALSE],
                                             strings_fs, dict_fs, order)
                IN  /\ translations' = tp.t
                    /\ plurals' = tp.p
                    /\ yaml' = SaveYaml(tp.t, tp.p)
                    /\ calls' = Append(calls, "extract")
    /\ UNCHANGED <<strings_fs, dict_fs, lproj_dirs, res_vars, esc_arg, esc_res, esc_pc>>

\* extract
Extract ==
    /\ Len(calls) < MaxOps
    /\ esc_pc = "idle"
    /\ prev_fs' = strings_fs
    /\ warnings' = <<>>
    /\ IF lproj_dirs = {}
       THEN \* _get_lproj_directories raises FileNotFoundError after the reset
            /\ translations' = <<>>
            /\ plurals' = <<>>
            /\ calls' = Append(calls, "extract_raised")
            /\ UNCHANGED yaml
       ELSE \E order \in Orders(lproj_dirs) :
                LET tp == ProcessDirectories([t |-> <<>>, p |-> <<>>, raised |-> FALSE],
                                             strings_fs, dict_fs, order)
                IN  /\ translations' = tp.t
                    /\ plurals' = tp.p
                    /\ IF tp.raised
                       THEN \* the exception leaves extract before _save_yaml
                            /\ calls' = Append(calls, "extract_failed")
                            /\ UNCHANGED yaml
                       ELSE /\ yaml' = SaveYaml(tp.t, tp.p)
                            /\ calls' = Append(calls, "extract")
    /\ UNCHANGED <<strings_fs, dict_fs, lproj_dirs, res_vars, esc_arg, esc_res, esc_pc>>

\* apply; the languages are a set, enumerated in some order.
Apply ==
    /\ Len(calls) < MaxOps
    /\ esc_pc = "idle"
    /\ prev_fs' = strings_fs
    /\ IF ~yaml.exists
       THEN /\ calls' = Append(calls, "apply_raised")
            /\ warnings' = <<>>
            /\ UNCHANGED <<strings_fs, lproj_dirs, translations, plurals>>
       ELSE LET t     == FromYamlDict(yaml.sections)
                langs == GetAllLanguages(t)
            IN  \E order \in Orders(langs) :
                    LET fw == ApplySections([fs |-> strings_fs, warn |-> <<>>],
                                            t, order, 1)
                    IN  /\ strings_fs' = fw.fs
                        /\ warnings' = fw.warn
                        /\ lproj_dirs' =
                              IF \E i \in 1..Len(StringsFiles) : DictHas(t, StringsFiles[i])
                              THEN lproj_dirs \cup langs ELSE lproj_dirs
                        /\ translations' = t
                        /\ plurals' = yaml.plurals
                        /\ calls' = Append(calls, "apply")
    /\ UNCHANGED <<dict_fs, yaml, res_vars, esc_arg, esc_res, esc_pc>>

ZH_HANS == <<"z", "h", "-", "H", "a", "n", "s">>
HE == <<"h", "e">>
IW == <<"i", "w">>

\* The default_lang of a call of apply_android.
DefaultLangs == {EN, ZH_HANS}

NoAndroidLog == [default_lang |-> <<>>, languages |-> {}, writes |-> {}]

\* apply_android(res_path, default_lang); the languages are a set, enumerated
\* in some order.
ApplyAndroid ==
    /\ Len(calls) < MaxOps
    /\ esc_pc = "idle"
    /\ prev_fs' = strings_fs
    /\ warnings' = <<>>
    /\ IF ~yaml.exists
       THEN /\ calls' = Append(calls, "apply_android_raised")
            /\ UNCHANGED <<translations, plurals, res_vars>>
       ELSE \E default_lang \in DefaultLangs :
            LET t         == FromYamlDict(yaml.sections)
                languages == GetAllLanguages(t)
                             \cup UNION {DictKeySet(yaml.plurals[i][2])
                                         : i \in 1..Len(yaml.plurals)}
            IN  \E order \in Orders(languages) :
                    /\ res_fs' = WriteText(WriteAndroidStrings(res_fs, t, yaml.plurals,
                                                               order, default_lang),
                                           LocalesConfigPath, LocalesConfig(languages))
                    /\ res_dirs' = res_dirs \cup {<<"xml">>}
                                    \cup {FolderName(l, default_lang) : l \in languages}
                    /\ android_log' =
                          [default_lang |-> default_lang,
                           languages    |-> languages,
                           writes       |-> {<<l, StringsXmlPath(l, default_lang)>>
                                             : l \in languages}]
                    /\ translations' = t
                    /\ plurals' = yaml.plurals
                    /\ calls' = Append(calls, "apply_android")
    /\ UNCHANGED <<strings_fs, dict_fs, lproj_dirs, yaml, esc_arg, esc_res, esc_pc>>

\* The value a user writes for a missing translation.
FillValue == <<"z">>

\* The languages of a YAML document.
DocLanguages(doc) ==
    UNION {UNION {DictKeySet(doc[i][2][j][2]) : j \in 1..Len(doc[i][2])}
           : i \in 1..Len(doc)}

\* A YAML document with every missing translation filled in by hand, each at
\* the end of its key, in sorted order of the languages.
Filled(doc) ==
    [i \in 1..Len(doc) |->
        <<doc[i][1],
          [j \in 1..Len(doc[i][2]) |->
              LET trans   == doc[i][2][j][2]
                  missing == Sorted(DocLanguages(doc) \ DictKeySet(trans))
              IN  <<doc[i][2][j][1],
                    trans \o [k \in 1..Len(missing) |-> <<missing[k], FillValue>>]>>]>>]

\* The user edits the YAML file between two calls: fills in the translations
\* that are missing.
FillMissing ==
    /\ Len(calls) < MaxOps
    /\ esc_pc = "idle"
    /\ yaml.exists
    /\ Filled(yaml.sections) # yaml.sections
    /\ yaml' = [yaml EXCEPT !.sections = Filled(yaml.sections)]
    /\ calls' = Append(calls, "edit")
    /\ prev_fs' = strings_fs
    /\ UNCHANGED <<strings_fs, dict_fs, lproj_dirs, translations, plurals, warnings,
                   res_vars, esc_arg, esc_res, esc_pc>>

\* The write_text calls of apply, in order, each as <<lang, section name>>:
\* the sections of strings_files the document holds, and for each the
\* languages in the order of the set.
WriteSequence(sections, order) ==
    LET present == SelectSeq(StringsFiles, LAMBDA n : DictHas(sections, n))
        n       == Len(order)
    IN  [i \in 1..(Len(present) * n) |->
            <<order[((i - 1) % n) + 1], present[((i - 1) \div n) + 1]>>]

\* _write_section_to_language for each write of a sequence: the files after
\* them, and the warnings printed.
RECURSIVE ApplyWrites(_, _, _)
ApplyWrites(fw, sections, writes) ==
    IF writes = <<>> THEN fw
    ELSE LET lang == Head(writes)[1]
             name == Head(writes)[2]
             keys == DictGet(sections, name)
         IN  ApplyWrites(
                 [fs   |-> [fw.fs EXCEPT ![<<lang, name>>] =
                               File(WriteStringsFile(fw.fs[<<lang, name>>], lang, name, keys))],
                  warn |-> fw.warn \o MissingWarnings(name, keys, SortedKeys(keys), lang)],
                 sections, Tail(writes))

\* apply, when the k-th write_text raises OSError (a full disk, a file that
\* is read-only): the exception leaves apply at once and the command reports
\* it.  The k-th directory is made and the k-th warnings are printed before
\* the write.
ApplyWriteFails ==
    /\ Len(calls) < MaxOps
    /\ esc_pc = "idle"
    /\ yaml.exists
    /\ prev_fs' = strings_fs
    /\ LET t     == FromYamlDict(yaml.sections)
           langs == GetAllLanguages(t)
       IN  \E order \in Orders(langs) :
               LET ws == WriteSequence(t, order)
               IN  \E k \in 1..Len(ws) :
                       LET fw == ApplyWrites([fs |-> strings_fs, warn |-> <<>>],
                                             t, SubSeq(ws, 1, k - 1))
                           kk == DictGet(t, ws[k][2])
                       IN  /\ strings_fs' = fw.fs
                           /\ warnings' = fw.warn
                                 \o MissingWarnings(ws[k][2], kk, SortedKeys(kk), ws[k][1])
                           /\ lproj_dirs' = lproj_dirs \cup {ws[i][1] : i \in 1..k}
                           /\ translations' = t
                           /\ plurals' = yaml.plurals
                           /\ calls' = Append(calls, "apply_failed")
    /\ UNCHANGED <<dict_fs, yaml, res_vars, esc_arg, esc_res, esc_pc>>

\* apply_android, when the k-th write raises OSError: the documents of the
\* first k - 1 languages are written, the folder of the k-th is made, and
\* the locale manifest is not reached.  The last write is the manifest.
ApplyAndroidWriteFails ==
    /\ Len(calls) < MaxOps
    /\ esc_pc = "idle"
    /\ yaml.exists
    /\ prev_fs' = strings_fs
    /\ warnings' = <<>>
    /\ \E default_lang \in DefaultLangs :
       LET t         == FromYamlDict(yaml.sections)
           languages == GetAllLanguages(t)
                        \cup UNION {DictKeySet(yaml.plurals[i][2])
                                    : i \in 1..Len(yaml.plurals)}
       IN  \E order \in Orders(languages) :
           \E k \in 1..(Len(order) + 1) :
               LET done == SubSeq(order, 1, k - 1)
               IN  /\ res_fs' = WriteAndroidStrings(res_fs, t, yaml.plurals,
                                                    done, default_lang)
                   /\ res_dirs' = res_dirs
                         \cup {FolderName(order[i], default_lang)
                               : i \in 1..(IF k > Len(order) THEN Len(order) ELSE k)}
                         \cup (IF k > Len(order) THEN {<<"xml">>} ELSE {})
                   /\ android_log' =
                         [default_lang |-> default_lang,
                          languages    |-> languages,
                          writes       |-> {<<done[i], StringsXmlPath(done[i], default_lang)>>
                                            : i \in 1..Len(done)}]
                   /\ translations' = t
                   /\ plurals' = yaml.plurals
                   /\ calls' = Append(calls, "apply_android_failed")
    /\ UNCHANGED <<strings_fs, dict_fs, lproj_dirs, yaml, esc_arg, esc_res, esc_pc>>

\* The commands on the string tables, and all the commands.
Next == Extract \/ Apply \/ FillMissing

NextAll == Extract \/ Apply \/ ApplyAndroid \/ FillMissing

\* The commands of a run on an Android tree.
NextAndroid == ApplyAndroid \/ FillMissing

\* extract, and apply of what it saved.
NextExtract == Extract \/ Apply

\* The apply commands, with writes that may fail.
NextFail == Apply \/ ApplyAndroid \/ ApplyWriteFails \/ ApplyAndroidWriteFails

----------------------------------------------------------------------------
(* Inputs *)

\* The str of length at most n over the characters A.
Strs(A, n) == UNION {[1..k -> A] : k \in 0..n}

\* The text of a source file: a header, a separator, one line per entry.
SourceText(header, sep, entries) ==
    header \o (IF header = <<>> THEN <<>> ELSE sep)
    \o JoinLines([i \in 1..Len(entries) |-> KeyLine(entries[i][1], entries[i][2])])
    \o (IF entries = <<>> THEN <<>> ELSE <<NL>>)

Comment == <<"/", "*", "c", "*", "/">>

EmptyTree == [p \in Paths |-> NoFile]
EmptyDicts == [p \in Paths |-> NoPlist]

\* The object after __init__, with nothing called.
FreshObject ==
    /\ translations = <<>> /\ plurals = <<>> /\ warnings = <<>>
    /\ calls = <<>> /\ prev_fs = strings_fs
    /\ res_fs = NoResFiles /\ res_dirs = {} /\ android_log = NoAndroidLog
    /\ esc_arg = <<>> /\ esc_res = <<>> /\ esc_pc = "idle"

\* Bounds of the source trees: the length of a raw value.
MaxRawLen == 3

\* The raw values the parser accepts as a whole.
RawValues ==
    {r \in Strs({"n", QUOTE, BSLASH}, MaxRawLen) : ValueEnd(r, 1) = Len(r) + 1}

\* What one language directory holds in a tree of KeyOrderTrees.
DirChoices == {"none", "a", "ab", "ba", "info"}

\* The value of every entry of a language in those trees.
ValueOf(lang) == <<lang[1]>>

DirEntries(choice, lang) ==
    CASE choice = "a"  -> <<<<<<"a">>, ValueOf(lang)>>>>
      [] choice = "ab" -> <<<<<<"a">>, ValueOf(lang)>>, <<<<"b">>, ValueOf(lang)>>>>
      [] choice = "ba" -> <<<<<<"b">>, ValueOf(lang)>>, <<<<"a">>, ValueOf(lang)>>>>
      [] OTHER         -> <<<<<<"a">>, ValueOf(lang)>>>>

\* Source trees whose languages differ in the keys they hold and their order.
KeyOrderTrees ==
    {[p \in Paths |->
        LET c == f[p[1]]
        IN  IF c = "none" \/ (c = "info") # (p[2] = "InfoPlist") THEN NoFile
            ELSE File(SourceText(h, sep, DirEntries(c, p[1])))]
     : f \in {g \in [LangCodes -> DirChoices] :
                 g[EN] # "none" /\ g[RU] \in {"none", "a"}},
       h \in {<<>>, Comment}, sep \in {<<NL>>, <<NL, NL>>}}

\* Source trees of one file with one entry, of any accepted raw value, and
\* the same with a second entry for the same key.
RawValueTrees ==
    {[EmptyTree EXCEPT ![<<EN, "Localizable">>] =
         File(SourceText(Comment, <<NL>>, <<<<<<"a">>, r>>>> \o more))]
     : r \in RawValues, more \in {<<>>, <<<<<<"a">>, <<"n">>>>>>}}

\* A well-formed entry of a plural dictionary, with the categories a language
\* uses, listed as the file lists them.
PluralEntryOf(lang) ==
    [is_dict |-> TRUE, var |-> "n", sub |-> "dict",
     type |-> "NSStringPluralRuleType",
     forms |-> IF lang = RU
               THEN <<<<"other", <<"r">>>>, <<"one", <<"r">>>>, <<"few", <<"r">>>>>>
               ELSE <<<<"one", ValueOf(lang)>>, <<"other", ValueOf(lang)>>>>]

PluralChoices == {"none", "h", "hd", "dh"}

PlistOf(choice, lang) ==
    CASE choice = "h"  -> Plist(<<<<<<"h">>, PluralEntryOf(lang)>>>>)
      [] choice = "hd" -> Plist(<<<<<<"h">>, PluralEntryOf(lang)>>,
                                  <<<<"d">>, PluralEntryOf(lang)>>>>)
      [] choice = "dh" -> Plist(<<<<<<"d">>, PluralEntryOf(lang)>>,
                                  <<<<"h">>, PluralEntryOf(lang)>>>>)
      [] OTHER         -> NoPlist

\* Plural dictionaries whose languages differ in the groups they hold.
PluralDicts ==
    {[p \in Paths |-> IF p[2] = "Localizable" THEN PlistOf(f[p[1]], p[1]) ELSE NoPlist]
     : f \in {g \in [LangCodes -> PluralChoices] :
                 g[RU] \in {"none", "h"} /\ \E l \in LangCodes : g[l] # "none"}}

\* The tree that goes with them: one file with one entry in every language.
PlainTree ==
    [p \in Paths |->
        IF p[2] = "Localizable"
        THEN File(SourceText(Comment, <<NL>>, <<<<<<"a">>, ValueOf(p[1])>>>>))
        ELSE NoFile]

\* The directories of the files of a tree.
DirsOf(fs) == {p[1] : p \in {q \in Paths : fs[q].exists}}

\* A source tree and no YAML file: a run that starts with extract.
Init ==
    /\ \/ strings_fs \in KeyOrderTrees \cup RawValueTrees /\ dict_fs = EmptyDicts
       \/ strings_fs = PlainTree /\ dict_fs \in PluralDicts
    /\ lproj_dirs = DirsOf(strings_fs)
    /\ yaml = NoYaml
    /\ FreshObject

Spec == Init /\ [][Next]_vars

----------------------------------------------------------------------------
(* A YAML file written by hand or by a program, and a target tree: a run   *)
(* that starts with apply.                                                 *)

\* Bounds of the documents: the length of a key name and of a value.
MaxKeyLen == 2
MaxValLen == 2

KeyNames == Strs({"a", QUOTE}, MaxKeyLen)
Values == Strs({"n", QUOTE, BSLASH}, MaxValLen)

Doc(sections) == [exists |-> TRUE, sections |-> sections, plurals |-> <<>>]

\* Documents of one section with a key of any name and a value of at most one
\* character, or a key of at most one character and any value, and a second
\* key that has one more language.
KeyValueDocs ==
    {Doc(<<<<"Localizable",
             <<<<kv[1], <<<<EN, kv[2]>>>>>>,
               <<<<"c">>, <<<<EN, <<"e">>>>, <<DE, <<"d">>>>>>>>>>>>>>)
     : kv \in {x \in KeyNames \X Values : Len(x[1]) <= 1 \/ Len(x[2]) <= 1}}

\* The languages of a key, in the order the document lists them.
LangLists == {<<EN>>, <<DE>>, <<EN, DE>>, <<DE, EN>>, <<EN, DE, RU>>, <<RU, DE, EN>>}

TransOf(langs) == [i \in 1..Len(langs) |-> <<langs[i], ValueOf(langs[i])>>]

\* Documents that differ in their sections, the order of their keys and the
\* languages of a key.
ShapeDocs ==
    {Doc(LET info  == <<"InfoPlist", <<<<<<"a">>, TransOf(<<EN>>)>>>>>>
             local == <<"Localizable",
                        [i \in 1..Len(ks) |->
                            <<ks[i], TransOf(IF ks[i] = <<"a">> THEN ls ELSE <<EN>>)>>]>>
         IN  CASE arr = "LI" -> <<local, info>>
               [] arr = "IL" -> <<info, local>>
               [] OTHER      -> <<local>>)
     : arr \in {"L", "LI", "IL"},
       ks \in {<<>>, <<<<"a">>>>, <<<<"a">>, <<"b">>>>, <<<<"b">>, <<"a">>>>},
       ls \in LangLists}

\* What the target path en.lproj/Localizable.strings holds before the run.
TargetFiles ==
    {NoFile, File(<<>>), File(Comment \o <<NL>>),
     File(SourceText(Comment, <<NL, NL>>, <<<<<<"z">>, <<"n">>>>>>)),
     File(SourceText(<<>>, <<>>, <<<<<<"z">>, <<"n">>>>>>))}

TargetTrees == {[EmptyTree EXCEPT ![<<EN, "Localizable">>] = f] : f \in TargetFiles}

InitApply ==
    /\ \/ yaml \in ShapeDocs /\ strings_fs \in TargetTrees
       \/ yaml \in KeyValueDocs /\ strings_fs = EmptyTree
    /\ dict_fs = EmptyDicts
    /\ lproj_dirs = DirsOf(strings_fs)
    /\ FreshObject

SpecApply == InitApply /\ [][Next]_vars

----------------------------------------------------------------------------
(* A YAML file and an empty Android tree: a run that starts with           *)
(* apply_android.                                                          *)

ZH_RCN == <<"z", "h", "-", "r", "C", "N">>
ES_419 == <<"e", "s", "-", "4", "1", "9">>
NB == <<"n", "b">>
SR_LATN == <<"s", "r", "-", "L", "a", "t", "n">>

\* Language codes: keys of the table in its three notations, codes that are
\* not keys, and among these two that are values of the table.
LangPool == {EN, DE, ZH_HANS, ZH_RCN, ES_419, NB, HE, IW, SR_LATN}

\* The languages of one document are at most MaxLangs.
MaxLangs == 3

\* Documents with one key, translated into a set of languages.
LangSetDocs ==
    {Doc(<<<<"Localizable", <<<<<<"a">>, TransOf(Sorted(S))>>>>>>>>)
     : S \in {T \in SUBSET LangPool : T # {} /\ Cardinality(T) <= MaxLangs}}

\* A value with a placeholder and characters that XML escapes.
Special == <<"%", "@", "&", "<", "'">>

\* Plural tables: none, one group, two groups listed out of order; the
\* categories of a language listed out of order, one language in no section.
PluralTables ==
    {<<>>,
     <<<<<<"h">>, <<<<EN, <<<<"other", Special>>, <<"one", <<"%", "d">>>>>>>>,
                    <<HE, <<<<"many", <<"m">>>>, <<"zero", <<"z">>>>,
                            <<"two", <<"t">>>>>>>>>>>>>>,
     <<<<<<"h">>, <<<<EN, <<<<"one", <<"o">>>>>>>>>>>>,
       <<<<"d">>, <<<<DE, <<<<"other", <<"%", "d", "%", "@">>>>,
                            <<"few", <<"f">>>>>>>>,
                    <<EN, <<>>>>>>>>>>}

\* Documents that differ in the order of their keys, the languages of a key,
\* a second section that holds the same key or another one, and the plurals.
ContentDocs ==
    {[exists   |-> TRUE,
      sections |->
          LET local == <<"Localizable",
                         [i \in 1..Len(ks) |->
                             <<ks[i], IF ks[i] = <<"a">> THEN TransOf(ls)
                                      ELSE <<<<EN, Special>>>>>>]>>
          IN  CASE info = "a" -> <<local, <<"InfoPlist", <<<<<<"a">>, <<<<EN, <<"i">>>>>>>>>>>>>>
                [] info = "c" -> <<<<"InfoPlist", <<<<<<"c">>, <<<<DE, <<>>>>>>>>>>>>, local>>
                [] OTHER      -> <<local>>,
      plurals  |-> pl]
     : ks \in {<<<<"a">>>>, <<<<"a">>, <<"b">>>>, <<<<"b">>, <<"a">>>>},
       ls \in {<<EN>>, <<DE>>, <<EN, DE>>},
       info \in {"none", "a", "c"},
       pl \in PluralTables}

InitAndroid ==
    /\ yaml \in LangSetDocs \cup ContentDocs
    /\ strings_fs = EmptyTree /\ dict_fs = EmptyDicts /\ lproj_dirs = {}
    /\ FreshObject

SpecAndroid == InitAndroid /\ [][NextAndroid]_vars

----------------------------------------------------------------------------
(* Every command, on a tree and a YAML file that may be absent.            *)

InitAll ==
    /\ \/ strings_fs = EmptyTree /\ yaml \in {NoYaml} \cup ShapeDocs
       \/ strings_fs = PlainTree /\ yaml = NoYaml
    /\ dict_fs = EmptyDicts
    /\ lproj_dirs = DirsOf(strings_fs)
    /\ FreshObject

SpecAll == InitAll /\ [][NextAll]_vars

----------------------------------------------------------------------------
(* Documents with a section that is not in strings_files and with plurals, *)
(* on a tree that may hold a file of that section's name.                  *)

\* The paths of the tree: those of strings_files, and Other.strings.
TreePaths == LangCodes \X ({StringsFiles[i] : i \in 1..Len(StringsFiles)} \cup {"Other"})

\* Trees: empty, or empty or PlainTree with en.lproj/Other.strings.
OtherTrees ==
    {[p \in TreePaths |->
        IF p \in Paths THEN bf[1][p]
        ELSE IF p[1] = EN THEN bf[2] ELSE NoFile]
     : bf \in {<<EmptyTree, NoFile>>} \cup
              ({EmptyTree, PlainTree}
               \X {File(SourceText(Comment, <<NL>>, <<<<<<"z">>, <<"n">>>>>>))})}

\* A plural table of one group, for the languages given.
PluralsIn(langs) ==
    IF langs = <<>> THEN <<>>
    ELSE <<<<<<"h">>, [i \in 1..Len(langs) |->
                         <<langs[i], <<<<"one", ValueOf(langs[i])>>>>>>]>>>>

\* Documents with or without the section Localizable, with or without a
\* section Other whose one key is in one language, and a plural table; a
\* language may be in the section Other only, or in the plural table only.
SectionDocs ==
    {[exists   |-> TRUE,
      sections |->
          (IF ls = <<>> THEN <<>>
           ELSE <<<<"Localizable", <<<<<<"a">>, TransOf(ls)>>,
                                     <<<<"b">>, TransOf(<<EN>>)>>>>>>>>)
          \o (IF ol = <<>> THEN <<>>
              ELSE <<<<"Other", <<<<<<"o">>, TransOf(ol)>>>>>>>>),
      plurals  |-> PluralsIn(pl)]
     : ls \in {<<>>, <<EN>>, <<EN, DE>>},
       ol \in {<<>>, <<DE>>, <<RU>>},
       pl \in {<<>>, <<RU>>, <<EN, RU>>}}

InitSections ==
    /\ yaml \in SectionDocs
    /\ strings_fs \in OtherTrees
    /\ dict_fs = EmptyDicts
    /\ lproj_dirs = {p[1] : p \in {q \in TreePaths : strings_fs[q].exists}}
    /\ FreshObject

SpecSections == InitSections /\ [][NextAll]_vars

----------------------------------------------------------------------------
(* Plural dictionaries with entries that are not plural rules.             *)

\* The entries _parse_stringsdict_file does not take: a value that is no
\* dictionary, a format key without %#@name@, no value under the name, a
\* value under the name that is a string, a dictionary under the name
\* without NSStringFormatSpecTypeKey or with another type, and a plural rule
\* with none of the six categories.
MalformedKinds == {"no_dict", "no_format", "absent", "string", "no_type",
                   "wrong_type", "no_forms"}

MalformedEntry(kind) ==
    [is_dict |-> kind # "no_dict",
     var     |-> IF kind = "no_format" THEN "" ELSE "n",
     sub     |-> CASE kind = "absent" -> "absent"
                   [] kind = "string" -> "other"
                   [] OTHER           -> "dict",
     type    |-> CASE kind = "no_type"    -> ""
                   [] kind = "wrong_type" -> "NSStringFormatValueTypeKey"
                   [] OTHER               -> "NSStringPluralRuleType",
     forms   |-> IF kind = "no_forms" THEN <<<<"any", <<"x">>>>>>
                 ELSE <<<<"one", <<"x">>>>, <<"other", <<"x">>>>>>]

\* The plural dictionary of en: one such entry before, between or after two
\* well-formed ones; de holds a dictionary of PluralChoices.
MalformedDicts ==
    {[p \in Paths |->
        CASE p = <<EN, "Localizable">> ->
                 LET good1 == <<<<"h">>, PluralEntryOf(EN)>>
                     good2 == <<<<"d">>, PluralEntryOf(EN)>>
                     bad   == <<<<"m">>, MalformedEntry(kind)>>
                 IN  Plist(CASE pos = 1 -> <<bad, good1, good2>>
                             [] pos = 2 -> <<good1, bad, good2>>
                             [] OTHER   -> <<good1, good2, bad>>)
          [] p = <<DE, "Localizable">> -> PlistOf(c, DE)
          [] OTHER -> NoPlist]
     : kind \in MalformedKinds, pos \in 1..3, c \in PluralChoices}

InitPlurals ==
    /\ strings_fs = PlainTree
    /\ dict_fs \in MalformedDicts
    /\ lproj_dirs = DirsOf(strings_fs)
    /\ yaml = NoYaml
    /\ FreshObject

SpecPlurals == InitPlurals /\ [][NextExtract]_vars

----------------------------------------------------------------------------
(* The apply commands on a file system whose writes may fail.              *)

\* The documents of ShapeDocs in at most two languages.
FailDocs == {d \in ShapeDocs : DocLanguages(d.sections) \subseteq {EN, DE}}

InitFail ==
    /\ yaml \in FailDocs
    /\ strings_fs = EmptyTree
    /\ dict_fs = EmptyDicts
    /\ lproj_dirs = DirsOf(strings_fs)
    /\ FreshObject

SpecFail == InitFail /\ [][NextFail]_vars

----------------------------------------------------------------------------
(* The escape round trip on its own: unescape(escape(s)) *)

\* Bound of the strings: their length.
MaxStrLen == 4

EscapeCall ==
    /\ esc_pc = "start"
    /\ esc_res' = EscapeStringsValue(esc_arg)
    /\ esc_pc' = "escaped"
    /\ UNCHANGED <<strings_fs, dict_fs, lproj_dirs, yaml, translations, plurals,
                   warnings, calls, prev_fs, res_vars, esc_arg>>

UnescapeCall ==
    /\ esc_pc = "escaped"
    /\ esc_res' = UnescapeStringsValue(esc_res)
    /\ esc_pc' = "unescaped"
    /\ UNCHANGED <<strings_fs, dict_fs, lproj_dirs, yaml, translations, plurals,
                   warnings, calls, prev_fs, res_vars, esc_arg>>

InitEscape ==
    /\ strings_fs = EmptyTree /\ dict_fs = EmptyDicts /\ lproj_dirs = {}
    /\ yaml = NoYaml
    /\ translations = <<>> /\ plurals = <<>> /\ warnings = <<>>
    /\ calls = <<>> /\ prev_fs = strings_fs
    /\ res_fs = NoResFiles /\ res_dirs = {} /\ android_log = NoAndroidLog
    /\ esc_arg \in Strs({"n", QUOTE, BSLASH}, MaxStrLen)
    /\ esc_res = <<>>
    /\ esc_pc = "start"

NextEscape == EscapeCall \/ UnescapeCall

SpecEscape == InitEscape /\ [][NextEscape]_vars

----------------------------------------------------------------------------
(* _convert_format_specifiers and _escape_android_xml on their own *)

\* A value is at most MaxTokens pieces.
MaxTokens == 3

\* The str made of at most n pieces of T.
RECURSIVE TokenStrs(_, _)
TokenStrs(T, n) ==
    IF n = 0 THEN {<<>>}
    ELSE LET shorter == TokenStrs(T, n - 1)
         IN  shorter \cup {s \o t : s \in shorter, t \in T}

\* Specifiers with and without a precision or a position, and their pieces.
FormatTokens ==
    {<<"%", "@">>, <<"%", "d">>, <<"%", ".", "2", "f">>, <<"%", "l", "d">>,
     <<"%", "1", "$", "d">>, <<"%">>, <<"z">>, <<".">>, <<"1">>, <<"$">>, <<"d">>}

\* The characters XML escaping replaces, an entity, a specifier.
XmlTokens ==
    {<<"&">>, <<"<">>, <<">">>, <<"'">>, <<QUOTE>>, <<"z">>, AMP, <<"%", "@">>}

ConvertCall ==
    /\ esc_pc = "start"
    /\ esc_res' = ConvertFormatSpecifiers(esc_arg)
    /\ esc_pc' = "converted"
    /\ UNCHANGED <<strings_fs, dict_fs, lproj_dirs, yaml, translations, plurals,
                   warnings, calls, prev_fs, res_vars, esc_arg>>

EscapeAndroidCall ==
    /\ esc_pc = "start"
    /\ esc_res' = EscapeAndroidXml(esc_arg)
    /\ esc_pc' = "xml_escaped"
    /\ UNCHANGED <<strings_fs, dict_fs, lproj_dirs, yaml, translations, plurals,
                   warnings, calls, prev_fs, res_vars, esc_arg>>

InitXml ==
    /\ strings_fs = EmptyTree /\ dict_fs = EmptyDicts /\ lproj_dirs = {}
    /\ yaml = NoYaml
    /\ translations = <<>> /\ plurals = <<>> /\ warnings = <<>>
    /\ calls = <<>> /\ prev_fs = strings_fs
    /\ res_fs = NoResFiles /\ res_dirs = {} /\ android_log = NoAndroidLog
    /\ esc_arg \in TokenStrs(FormatTokens, MaxTokens) \cup TokenStrs(XmlTokens, MaxTokens)
    /\ esc_res = <<>>
    /\ esc_pc = "start"

NextXml == ConvertCall \/ EscapeAndroidCall

SpecXml == InitXml /\ [][NextXml]_vars
----------------------------------------------------------------------------
(* Properties *)

\* The last call made, none before the first.
LastCall == IF calls = <<>> THEN "none" ELSE calls[Len(calls)]

\* The last two calls were a and then b.
LastTwo(a, b) ==
    Len(calls) >= 2 /\ calls[Len(calls) - 1] = a /\ calls[Len(calls)] = b

\* C1: for every string s over an alphabet with the quote and the backslash,
\* unescaping the escaped s gives s back.
C1_EscapeRoundTrip == esc_pc = "unescaped" => esc_res = esc_arg

\* A round trip of a string in which a backslash stands right before a quote
\* and another backslash right after it.
C1_Witness ==
    /\ esc_pc = "unescaped"
    /\ \E i \in 1..(Len(esc_arg) - 2) :
          esc_arg[i] = BSLASH /\ esc_arg[i + 1] = QUOTE /\ esc_arg[i + 2] = BSLASH

\* The raw value the last entry for key holds in text; the key occurs there.
RawOf(text, key) ==
    LET ms == FindAll(text, 1)
        i  == CHOOSE i \in 1..Len(ms) :
                 ms[i].key = key /\ \A j \in (i + 1)..Len(ms) : ms[j].key # key
    IN  ms[i].raw

\* The keys of the entries the pattern finds in text.
KeysIn(text) == LET ms == FindAll(text, 1) IN {ms[i].key : i \in 1..Len(ms)}

\* Key occurs exactly once among the entries of text.
OccursOnce(text, key) ==
    LET ms == FindAll(text, 1) IN Cardinality({i \in 1..Len(ms) : ms[i].key = key}) = 1

\* C2: extract followed by apply, the YAML left unchanged, keeps the raw value
\* text of every entry the parser accepts whose key occurs once in its file.
C2_RawValuePreserved ==
    LastTwo("extract", "apply") =>
        \A p \in Paths :
            prev_fs[p].exists =>
                \A k \in KeysIn(prev_fs[p].content) :
                    OccursOnce(prev_fs[p].content, k) =>
                        /\ k \in KeysIn(strings_fs[p].content)
                        /\ RawOf(strings_fs[p].content, k) = RawOf(prev_fs[p].content, k)

\* s is t followed by something.
StartsWith(s, t) == Len(t) <= Len(s) /\ SubSeq(s, 1, Len(t)) = t

\* s is something followed by t.
EndsWith(s, t) == Len(t) <= Len(s) /\ SubSeq(s, Len(s) - Len(t) + 1, Len(s)) = t

\* C3: for a model built by a program, with any key names and values, the text
\* written for a section and a language parses to exactly the value of every
\* key that has one for the language, and to no key that is not of the section.
C3_ParseOfWrite ==
    LastCall = "apply" =>
        \A i \in 1..Len(translations) : \A lang \in GetAllLanguages(translations) :
            LET name   == translations[i][1]
                keys   == translations[i][2]
                parsed == ParseStringsFile(<<>>, strings_fs[<<lang, name>>].content,
                                           lang, name)[1][2]
            IN  /\ \A j \in 1..Len(keys) :
                      DictHas(keys[j][2], lang) =>
                          /\ DictHas(parsed, keys[j][1])
                          /\ DictGet(DictGet(parsed, keys[j][1]), lang)
                                = DictGet(keys[j][2], lang)
                /\ DictKeySet(parsed) \subseteq DictKeySet(keys)

\* The languages of a key are listed en first when present, then ascending.
EnFirstAscending(trans) ==
    /\ \A i \in 1..Len(trans) : trans[i][1] = EN => i = 1
    /\ \A i, j \in 1..Len(trans) :
          i < j /\ trans[i][1] # EN => StrLess(trans[i][1], trans[j][1])

\* A document to_yaml_dict can produce: every key has a language, and lists
\* its languages in the order of the projection.
IsProjection(doc) ==
    \A i \in 1..Len(doc) : \A j \in 1..Len(doc[i][2]) :
        doc[i][2][j][2] # <<>> /\ EnFirstAscending(doc[i][2][j][2])

\* C5: a document that to_yaml_dict can produce is projected back to itself
\* after from_yaml_dict, the order of sections, keys and languages included.
C5_ProjectionRoundTrip ==
    LastCall = "apply" /\ IsProjection(yaml.sections) =>
        ToYamlDict(translations) = yaml.sections

\* Such a document of two sections, with two keys out of sorted order and a
\* key of three languages, loaded by apply.
C5_Witness ==
    /\ LastCall = "apply" /\ IsProjection(yaml.sections)
    /\ Len(yaml.sections) = 2
    /\ \E i \in 1..2 :
          /\ Len(yaml.sections[i][2]) = 2
          /\ StrLess(yaml.sections[i][2][2][1], yaml.sections[i][2][1][1])
          /\ \E j \in 1..2 : Len(yaml.sections[i][2][j][2]) = 3

\* The names listed by a dict are in ascending order.
KeysAscending(d) == \A i, j \in 1..Len(d) : i < j => StrLess(d[i][1], d[j][1])

\* C6: in the YAML document extract writes, the keys of every section are in
\* ascending order of name, whatever order the files list them in.
C6_YamlKeysSorted ==
    LastCall = "extract" =>
        \A i \in 1..Len(yaml.sections) : KeysAscending(yaml.sections[i][2])

\* C7: in the YAML document extract writes, every key and every plural group
\* lists en first when present and the other languages in ascending order, and
\* the plural groups are in ascending order of name.
C7_YamlLanguagesSorted ==
    LastCall = "extract" =>
        /\ \A i \in 1..Len(yaml.sections) : \A j \in 1..Len(yaml.sections[i][2]) :
              EnFirstAscending(yaml.sections[i][2][j][2])
        /\ \A g \in 1..Len(yaml.plurals) : EnFirstAscending(yaml.plurals[g][2])
        /\ KeysAscending(yaml.plurals)

\* An extract that met the languages of a key and of a plural group in another
\* order than the one it writes, and the plural groups out of sorted order.
C7_Witness ==
    /\ LastCall = "extract"
    /\ \E i \in 1..Len(translations) : \E j \in 1..Len(translations[i][2]) :
          Len(translations[i][2][j][2]) = 3 /\ ~EnFirstAscending(translations[i][2][j][2])
    /\ Len(plurals) = 2 /\ ~KeysAscending(plurals)
    /\ \E g \in 1..2 : Len(plurals[g][2]) = 3 /\ ~EnFirstAscending(plurals[g][2])

\* C8: for a fixed source tree, extract writes the same YAML document
\* whatever the order in which the language directories are enumerated.
C8_ExtractDeterministic ==
    LastCall = "extract" =>
        \A order \in Orders(lproj_dirs) :
            LET tp == ProcessDirectories([t |-> <<>>, p |-> <<>>, raised |-> FALSE],
                                         strings_fs, dict_fs, order)
            IN  SaveYaml(tp.t, tp.p) = yaml

\* C9: a second apply of the same YAML document leaves every file as the
\* first apply wrote it, whatever the target tree held before.
C9_ApplyIdempotent == LastTwo("apply", "apply") => strings_fs = prev_fs

\* The keys S listed in ascending order.
Ascending(S) ==
    CHOOSE o \in Orders(S) : \A a, b \in 1..Len(o) : a < b => StrLess(o[a], o[b])

\* The triples (section, key, language) of the written sections that have no
\* value.
MissingTriples ==
    {w \in [section : {StringsFiles[i] : i \in 1..Len(StringsFiles)},
            key : UNION {DictKeySet(translations[i][2]) : i \in 1..Len(translations)},
            lang : GetAllLanguages(translations)] :
        /\ DictHas(translations, w.section)
        /\ DictHas(DictGet(translations, w.section), w.key)
        /\ ~DictHas(DictGet(DictGet(translations, w.section), w.key), w.lang)}

RECURSIVE SplitLines(_)
SplitLines(t) ==
    LET i == LineEnd(t, 1)
    IN  IF i > Len(t) THEN <<t>>
        ELSE <<SubSeq(t, 1, i - 1)>> \o SplitLines(SubSeq(t, i + 1, Len(t)))

\* The last calls were extract on the tree of prev_fs, the filling in of what
\* was missing, if anything was, and apply.
RoundTrip ==
    \/ LastTwo("extract", "apply") /\ Filled(yaml.sections) = yaml.sections
    \/ /\ LastTwo("edit", "apply")
       /\ Len(calls) >= 3 /\ calls[Len(calls) - 2] = "extract"

\* The text starts with a header comment, before its first entry.
HasHeaderComment(text) ==
    FirstKeyLine(text) > 1 /\ RStrip(SubSeq(text, 1, FirstKeyLine(text) - 1)) # <<>>

\* The keys of a section of the tree fs, over all its languages.
SectionKeys(fs, name) == UNION {KeysIn(fs[<<l, name>>].content) : l \in LangCodes}

\* C4 as stated: after extract, filling in and apply, every original file
\* that has a header comment is what it was, byte for byte, once the lines of
\* the keys it did not hold are taken out.
C4_ByteIdentical ==
    RoundTrip =>
        \A p \in Paths :
            prev_fs[p].exists /\ HasHeaderComment(prev_fs[p].content) =>
                JoinLines(SelectSeq(SplitLines(strings_fs[p].content),
                                    LAMBDA line :
                                        ~(MatchAt(line, 1).ok
                                          /\ MatchAt(line, 1).key
                                                \notin KeysIn(prev_fs[p].content))))
                    = prev_fs[p].content

\* C4 as amended: after extract, filling in and apply, every original file
\* that has a header comment is that comment, trimmed, and one entry line per
\* key of the section in ascending key order; every key the file held keeps the
\* value the parser read for it, every other key has the value filled in.
C4_Normalised ==
    RoundTrip =>
        \A p \in Paths :
            prev_fs[p].exists /\ HasHeaderComment(prev_fs[p].content) =>
                LET orig == prev_fs[p].content
                    new  == strings_fs[p].content
                    ks   == Ascending(SectionKeys(prev_fs, p[2]))
                IN  /\ KeysIn(new) = SectionKeys(prev_fs, p[2])
                    /\ new = JoinLines(
                                <<RStrip(SubSeq(orig, 1, FirstKeyLine(orig) - 1))>>
                                \o [j \in 1..Len(ks) |-> KeyLine(ks[j], RawOf(new, ks[j]))])
                             \o <<NL>>
                    /\ \A k \in KeysIn(orig) :
                          UnescapeStringsValue(RawOf(new, k))
                             = UnescapeStringsValue(RawOf(orig, k))
                    /\ \A k \in KeysIn(new) \ KeysIn(orig) : RawOf(new, k) = FillValue

\* Such a run on a tree with a file that has a header comment, a blank line
\* after it and its two entries out of order, and a file that lacks a key.
C4_Witness ==
    /\ LastTwo("edit", "apply") /\ RoundTrip
    /\ \E p \in Paths :
          LET orig == prev_fs[p].content
              ms   == FindAll(orig, 1)
          IN  /\ prev_fs[p].exists /\ HasHeaderComment(orig)
              /\ At(orig, FirstKeyLine(orig) - 1) = NL
              /\ At(orig, FirstKeyLine(orig) - 2) = NL
              /\ Len(ms) = 2 /\ StrLess(ms[2].key, ms[1].key)
    /\ \E q \in Paths :
          /\ prev_fs[q].exists /\ HasHeaderComment(prev_fs[q].content)
          /\ KeysIn(prev_fs[q].content) # SectionKeys(prev_fs, q[2])

----------------------------------------------------------------------------
(* The Android documents *)

\* The last call was apply_android and it returned.
AndroidApplied == LastCall = "apply_android"

\* The languages of the last apply_android whose path no other language of
\* the call was written to.
AloneAtPath ==
    {l \in android_log.languages :
        \A w \in android_log.writes :
            w[2] = StringsXmlPath(l, android_log.default_lang) => w[1] = l}

\* The lines of the document on disk for language l.
DocLines(l) ==
    LET text == res_fs[StringsXmlPath(l, android_log.default_lang)]
    IN  SplitLines(SubSeq(text, 1, Len(text) - 1))

\* The name attribute of a line: what is between its first two quotes.
NameOf(line) == SubSeq(line, 3, NextQuote(line, 3) - 1)

\* The names of the string entries of a document, in the order of its lines.
StringNames(lines) ==
    LET entries == SelectSeq(lines, LAMBDA line : line[1] = "    <string name=")
    IN  [i \in 1..Len(entries) |-> NameOf(entries[i])]

\* The keys of the YAML document that have a value for language l in some
\* section.
KeysWithValue(doc, l) ==
    UNION {{doc[i][2][j][1] : j \in {k \in 1..Len(doc[i][2]) : DictHas(doc[i][2][k][2], l)}}
           : i \in 1..Len(doc)}

\* All the keys of the YAML document.
AllDocKeys(doc) == UNION {DictKeySet(doc[i][2]) : i \in 1..Len(doc)}

\* C11: after apply_android, the string entries of the document of every
\* language are the keys that have a value for the language in some section,
\* each once, in ascending order; a key without one is left out, and no
\* warning is printed.
C11_AndroidStringEntries ==
    AndroidApplied =>
        /\ \A l \in AloneAtPath :
              StringNames(DocLines(l)) = Ascending(KeysWithValue(yaml.sections, l))
        /\ warnings = <<>>

\* A call on a document that lists b before a, holds a key in two sections,
\* and has a language that lacks a key.
C11_Witness ==
    /\ AndroidApplied
    /\ Len(yaml.sections) = 2
    /\ DictKeySet(yaml.sections[1][2]) \cap DictKeySet(yaml.sections[2][2]) # {}
    /\ \E i \in 1..Len(yaml.sections) :
          /\ Len(yaml.sections[i][2]) = 2
          /\ StrLess(yaml.sections[i][2][2][1], yaml.sections[i][2][1][1])
    /\ \E l \in AloneAtPath :
          /\ KeysWithValue(yaml.sections, l) # {}
          /\ KeysWithValue(yaml.sections, l) # AllDocKeys(yaml.sections)

----------------------------------------------------------------------------
(* The header of a string table *)

\* The leading comment block of a text: everything before its first key
\* line, or all of it when it has none, trimmed.
LeadingBlock(text) ==
    IF FirstKeyLine(text) > 0 THEN RStrip(SubSeq(text, 1, FirstKeyLine(text) - 1))
    ELSE RStrip(text)

\* The paths the last apply wrote.
WrittenPaths ==
    {p \in Paths : DictHas(translations, p[2]) /\ p[1] \in GetAllLanguages(translations)}

\* C12: after apply, a file written where a file existed starts with the
\* leading comment block of that file, and with the default header only if
\* that is the block; a file written where none existed starts with the
\* default header.
C12_HeaderPolicy ==
    LastCall = "apply" =>
        \A p \in WrittenPaths :
            LET new     == strings_fs[p].content
                default == DefaultHeader(p[1], p[2])
            IN  IF prev_fs[p].exists
                THEN LET block == LeadingBlock(prev_fs[p].content)
                     IN  /\ StartsWith(new, block)
                         /\ block # default => ~StartsWith(new, default)
                ELSE StartsWith(new, default)

----------------------------------------------------------------------------
(* The folders and the locales of the Android tree *)

\* The folder suffix the table gives, written out for the codes of LangPool:
\* zh-Hans, es-419, sr-Latn and he are keys of the table, the others are not.
ExpectedSuffix(l) ==
    CASE l = ZH_HANS -> ZH_RCN
      [] l = ES_419  -> <<"b", "+", "e", "s", "+", "4", "1", "9">>
      [] l = SR_LATN -> <<"b", "+", "s", "r", "+", "L", "a", "t", "n">>
      [] l = HE      -> IW
      [] OTHER       -> l

\* C13: apply_android with default language D writes the document of every
\* language L to the folder values when L = D, and otherwise to values-
\* followed by the table entry of L, or by L itself when the table has none.
C13_FolderNaming ==
    AndroidApplied =>
        \A l \in android_log.languages :
            LET folder == IF l = android_log.default_lang THEN <<"values">>
                          ELSE <<"values-">> \o ExpectedSuffix(l)
            IN  /\ <<l, folder \o <<"/strings.xml">>>> \in android_log.writes
                /\ folder \in res_dirs
                /\ folder \o <<"/strings.xml">> \in DOMAIN res_fs

\* A call whose languages are the default language, a key of the table and
\* a code that is not a key.
C13_Witness ==
    /\ AndroidApplied
    /\ android_log.default_lang \in android_log.languages
    /\ \E l \in android_log.languages \ {android_log.default_lang} :
          DictHas(IOS_TO_ANDROID_LANG, l) /\ ExpectedSuffix(l) # l
    /\ \E l \in android_log.languages \ {android_log.default_lang} :
          ~DictHas(IOS_TO_ANDROID_LANG, l) /\ ExpectedSuffix(l) = l

\* C14: apply_android writes no two languages to the same strings.xml path,
\* and after a run on an empty tree the documents on disk are as many as the
\* languages.
C14_OneDocumentPerLanguage ==
    AndroidApplied =>
        /\ \A v, w \in android_log.writes : v[2] = w[2] => v[1] = w[1]
        /\ Len(calls) = 1 =>
              Cardinality(DOMAIN res_fs \ {LocalesConfigPath})
                 = Cardinality(android_log.languages)

----------------------------------------------------------------------------
(* Escaping and placeholders of Android values *)

\* What one character of a value becomes in XML.
XmlOfChar(c) ==
    CASE c = "&"   -> AMP
      [] c = "<"   -> LT
      [] c = ">"   -> GT
      [] c = "'"   -> <<BSLASH, "'">>
      [] c = QUOTE -> <<BSLASH, QUOTE>>
      [] OTHER     -> <<c>>

\* Every character of a value replaced on its own, none replaced twice.
RECURSIVE XmlOfChars(_)
XmlOfChars(value) ==
    IF value = <<>> THEN <<>> ELSE XmlOfChar(Head(value)) \o XmlOfChars(Tail(value))

\* The text holds no raw angle bracket, and no ampersand that does not start
\* one of the three entities.
NoRawMarkup(text) ==
    \A i \in 1..Len(text) :
        /\ text[i] \notin {"<", ">"}
        /\ text[i] = "&" =>
              \/ i + 4 <= Len(text) /\ SubSeq(text, i, i + 4) = AMP
              \/ i + 3 <= Len(text) /\ SubSeq(text, i, i + 3) \in {LT, GT}

\* C15 as stated: the text _escape_android_xml emits for a value is the value
\* with its five characters replaced, none twice, and holds no raw markup.
C15_EscapeOfValue ==
    esc_pc = "xml_escaped" =>
        esc_res = XmlOfChars(esc_arg) /\ NoRawMarkup(esc_res)

\* C15 as amended: the text _escape_android_xml emits for a value is the
\* value after placeholder conversion with its five characters replaced,
\* none twice, and holds no raw markup.
C15_EscapeOfConverted ==
    esc_pc = "xml_escaped" =>
        /\ esc_res = XmlOfChars(ConvertFormatSpecifiers(esc_arg))
        /\ NoRawMarkup(esc_res)

\* A value with an ampersand, an angle bracket and a specifier that
\* conversion changes, escaped.
C15_Witness ==
    /\ esc_pc = "xml_escaped"
    /\ \E i, j \in 1..Len(esc_arg) : esc_arg[i] = "&" /\ esc_arg[j] = "<"
    /\ ConvertFormatSpecifiers(esc_arg) # esc_arg

\* t[i..j] is a non-positional format specifier: a percent sign that is not
\* followed by digits and a dollar sign, then nothing or a dot and one or
\* more digits, then at j an at-sign or a specifier letter.
IsSpecifier(t, i, j) ==
    /\ 1 <= i /\ i < j /\ j <= Len(t)
    /\ t[i] = "%"
    /\ ~\E k \in (i + 2)..Len(t) :
           t[k] = "$" /\ \A d \in (i + 1)..(k - 1) : IsDigit(t[d])
    /\ \/ j = i + 1
       \/ j >= i + 3 /\ t[i + 1] = "." /\ \A d \in (i + 2)..(j - 1) : IsDigit(t[d])
    /\ t[j] = "@" \/ t[j] \in SpecLetters

\* The positions where a specifier of t starts, and where its letter is.
SpecStarts(t) == {i \in 1..Len(t) : \E j \in 1..Len(t) : IsSpecifier(t, i, j)}
SpecEnds(t) == {j \in 1..Len(t) : \E i \in 1..Len(t) : IsSpecifier(t, i, j)}

\* What the character at i of t becomes: a percent sign that starts the
\* r-th of several specifiers is followed by r and a dollar sign, an at-sign
\* that ends a specifier becomes s, everything else stays.
ConvertedAt(t, i) ==
    LET n == Cardinality(SpecStarts(t))
        r == Cardinality({k \in SpecStarts(t) : k <= i})
    IN  IF i \in SpecStarts(t) /\ n >= 2 THEN <<"%", Digits[r + 1], "$">>
        ELSE IF i \in SpecEnds(t) /\ t[i] = "@" THEN <<"s">>
        ELSE <<t[i]>>

RECURSIVE ConvertedFrom(_, _)
ConvertedFrom(t, i) ==
    IF i > Len(t) THEN <<>> ELSE ConvertedAt(t, i) \o ConvertedFrom(t, i + 1)

\* C16: _convert_format_specifiers leaves a value without a non-positional
\* specifier unchanged, converts only the letter of a single specifier, and
\* numbers several specifiers from 1, left to right, keeping the precision
\* and converting the letter; all other text stays where it is.
C16_PlaceholderConversion ==
    esc_pc = "converted" =>
        /\ esc_res = ConvertedFrom(esc_arg, 1)
        /\ SpecStarts(esc_arg) = {} => esc_res = esc_arg
        /\ Cardinality(SpecStarts(esc_arg)) = 1 => Len(esc_res) = Len(esc_arg)

\* A converted value with two specifiers, one with a precision and one with
\* an at-sign, and a positional specifier.
C16_Witness ==
    /\ esc_pc = "converted"
    /\ Cardinality(SpecStarts(esc_arg)) = 2
    /\ \E i \in SpecStarts(esc_arg) : esc_arg[i + 1] = "."
    /\ \E j \in SpecEnds(esc_arg) : esc_arg[j] = "@"
    /\ \E k \in 1..(Len(esc_arg) - 3) :
          /\ k \notin SpecStarts(esc_arg)
          /\ SubSeq(esc_arg, k, k + 3) = <<"%", "1", "$", "d">>

----------------------------------------------------------------------------
(* Plurals in the Android documents *)

\* The plural lines of a document, in the order of its lines.
PluralPart(lines) ==
    SelectSeq(lines, LAMBDA line :
        line[1] \in {"    <plurals name=", "        <item quantity=", "    </plurals>"})

\* The plural groups of the YAML document that have an entry for language l.
GroupsOf(l) ==
    {yaml.plurals[i][1] : i \in {k \in 1..Len(yaml.plurals) : DictHas(yaml.plurals[k][2], l)}}

\* The block of one group for language l: its opening line, one item for
\* each category present, in the order zero, one, two, few, many, other,
\* with the value converted and escaped, and its closing line.
ExpectedBlock(group, l) ==
    LET forms   == DictGet(DictGet(yaml.plurals, group), l)
        present == SelectSeq(<<"zero", "one", "two", "few", "many", "other">>,
                             LAMBDA q : DictHas(forms, q))
    IN  <<<<"    <plurals name=", QUOTE>> \o group \o <<QUOTE, ">">>>>
        \o [i \in 1..Len(present) |->
               <<"        <item quantity=", QUOTE, present[i], QUOTE, ">">>
               \o XmlOfChars(ConvertedFrom(DictGet(forms, present[i]), 1))
               \o <<"</item>">>]
        \o <<<<"    </plurals>">>>>

RECURSIVE ExpectedBlocks(_, _)
ExpectedBlocks(groups, l) ==
    IF groups = <<>> THEN <<>>
    ELSE ExpectedBlock(Head(groups), l) \o ExpectedBlocks(Tail(groups), l)

\* C17: after apply_android, the plural lines of the document of every
\* language are one block for each plural group that has an entry for the
\* language, with an item for each category present and for no other, in the
\* fixed order, the values converted and escaped as those of strings.
C17_PluralEmission ==
    AndroidApplied =>
        \A l \in AloneAtPath :
            PluralPart(DocLines(l)) = ExpectedBlocks(Ascending(GroupsOf(l)), l)

\* A call on a document with a group whose categories for a language are
\* listed out of order and hold a value that conversion and escaping change,
\* and a language without an entry in a group.
C17_Witness ==
    /\ AndroidApplied
    /\ \E l \in AloneAtPath : \E g \in GroupsOf(l) :
          LET forms == DictGet(DictGet(yaml.plurals, g), l)
          IN  /\ Len(forms) >= 2
              /\ forms[1][1] = "other"
              /\ XmlOfChars(ConvertedFrom(forms[1][2], 1)) # forms[1][2]
    /\ \E l \in AloneAtPath : yaml.plurals # <<>> /\ GroupsOf(l) = {}

----------------------------------------------------------------------------
(* The locale manifest *)

\* The locale names of locales_config.xml, in the order of its lines.
LocaleNames ==
    LET text    == res_fs[LocalesConfigPath]
        lines   == SplitLines(SubSeq(text, 1, Len(text) - 1))
        entries == SelectSeq(lines, LAMBDA line : line[1] = "    <locale android:name=")
    IN  [i \in 1..Len(entries) |-> NameOf(entries[i])]

\* The locale _ios_to_android_locale gives, written out for the codes of
\* LangPool: the table entry zh-rCN of zh-Hans becomes zh-CN, the entries
\* b+es+419 and b+sr+Latn become es-419 and sr-Latn, he has the entry iw;
\* zh-rCN, which is not a key, is converted like the entry it equals, and
\* the other codes are not keys and stay.
ExpectedLocale(l) ==
    CASE l = ZH_HANS -> <<"z", "h", "-", "C", "N">>
      [] l = ZH_RCN  -> <<"z", "h", "-", "C", "N">>
      [] l = ES_419  -> ES_419
      [] l = SR_LATN -> SR_LATN
      [] l = HE      -> IW
      [] OTHER       -> l

\* C18: after apply_android, locales_config.xml lists the locales of the
\* languages of the run, the default language included, each once, in
\* ascending order.
C18_LocaleManifest ==
    AndroidApplied =>
        LocaleNames = Ascending({ExpectedLocale(l) : l \in android_log.languages})

\* A call with three languages, the default language among them, two of
\* which have the same locale.
C18_Witness ==
    /\ AndroidApplied
    /\ Cardinality(android_log.languages) = 3
    /\ android_log.default_lang \in android_log.languages
    /\ Len(LocaleNames) = 2
    /\ \E l \in android_log.languages : DictHas(IOS_TO_ANDROID_LANG, l)

\* C19: after apply_android, every language of the run that is not a key
\* of the table has its own code, unchanged, as its entry of the manifest.
C19_UnknownCodePassesThrough ==
    AndroidApplied =>
        \A l \in android_log.languages :
            ~DictHas(IOS_TO_ANDROID_LANG, l) =>
                \E i \in 1..Len(LocaleNames) : LocaleNames[i] = l

----------------------------------------------------------------------------
(* Fatal errors *)

\* The files and directories a command can write.
outputs == <<yaml, strings_fs, lproj_dirs, res_fs, res_dirs>>

\* C20: every call of extract with no lproj directory, and every call of
\* apply or apply_android with no YAML file, raises, and a call that raises
\* creates and changes no file and no directory; the calls raise in no other
\* case.
C20_FatalErrorsTouchNothing ==
    [][calls' # calls =>
          /\ LastCall' \in {"extract_raised", "apply_raised", "apply_android_raised"}
                => UNCHANGED outputs
          /\ LastCall' \in {"extract", "extract_raised"}
                => (LastCall' = "extract_raised" <=> lproj_dirs = {})
          /\ LastCall' \in {"apply", "apply_raised"}
                => (LastCall' = "apply_raised" <=> ~yaml.exists)
          /\ LastCall' \in {"apply_android", "apply_android_raised"}
                => (LastCall' = "apply_android_raised" <=> ~yaml.exists)]_vars

\* The three commands have raised, one after the other, and there is still
\* no YAML file, no lproj directory and nothing in the Android tree.
C20_Witness ==
    /\ {calls[i] : i \in 1..Len(calls)}
          = {"extract_raised", "apply_raised", "apply_android_raised"}
    /\ ~yaml.exists /\ lproj_dirs = {} /\ res_fs = NoResFiles /\ res_dirs = {}

----------------------------------------------------------------------------
(* A write that fails *)

\* C21: when an unexpected failure (an I/O error on the k-th write) ends a
\* run of apply or apply_android, the target tree is as it was before the
\* run: no file written earlier in the run remains changed.
C21_NoPartialState ==
    [][(calls' # calls /\ calls'[Len(calls')] \in {"apply_failed", "apply_android_failed"})
          => strings_fs' = strings_fs /\ res_fs' = res_fs]_vars

----------------------------------------------------------------------------
(* Entries of a plural dictionary that are not plural rules *)

\* An entry the parser takes.
WellFormed(entry) ==
    /\ entry.is_dict /\ entry.var # "" /\ entry.sub = "dict"
    /\ entry.type = "NSStringPluralRuleType"
    /\ PluralForms(entry.forms) # <<>>

\* The well-formed entries of the dictionaries of a language, as
\* <<group, forms>>.
WellFormedOf(l) ==
    {<<dict_fs[p].entries[i][1], PluralForms(dict_fs[p].entries[i][2].forms)>>
     : <<p, i>> \in {q \in {r \in Paths : r[1] = l /\ dict_fs[r].exists} \X (1..3) :
                       /\ q[2] <= Len(dict_fs[q[1]].entries)
                       /\ WellFormed(dict_fs[q[1]].entries[q[2]][2])}}

\* The <<group, forms>> the plural table holds for a language.
TableOf(l) ==
    {<<plurals[i][1], DictGet(plurals[i][2], l)>>
     : i \in {j \in 1..Len(plurals) : DictHas(plurals[j][2], l)}}

\* C22: an entry of a plural dictionary without a format key that matches,
\* or whose named sub-entry is absent, is no dictionary or declares no
\* plural rule, is skipped: it adds nothing to the plural table, extract
\* raises no error, and every other entry of the file is processed.
C22_MalformedSkipped ==
    LastCall \in {"extract", "extract_failed"}
    => /\ LastCall = "extract"
       /\ \A l \in LangCodes : TableOf(l) = WellFormedOf(l)

----------------------------------------------------------------------------
(* The languages an apply command writes *)

\* The languages of the plural table of a document.
PluralLanguages(pl) == UNION {DictKeySet(pl[i][2]) : i \in 1..Len(pl)}

\* All languages of the YAML file: those of the keys of its sections, and
\* those of its plural table.
AllLanguages == DocLanguages(yaml.sections) \cup PluralLanguages(yaml.plurals)

\* The sections of strings_files the YAML file holds.
KnownSections ==
    {StringsFiles[i] : i \in {j \in 1..Len(StringsFiles) : DictHas(yaml.sections, StringsFiles[j])}}

\* C23: the languages for which apply and apply_android write output are
\* the languages of the keys of all sections together with the languages of
\* the plural table; a language of the plural table only is among them.
C23_AllLanguagesWritten ==
    /\ LastCall = "apply" =>
          \A name \in KnownSections : \A l \in LangCodes :
              /\ l \in AllLanguages => strings_fs[<<l, name>>].exists
              /\ strings_fs[<<l, name>>] # prev_fs[<<l, name>>] => l \in AllLanguages
    /\ LastCall = "apply_android" =>
          /\ {w[1] : w \in android_log.writes} = AllLanguages
          /\ \A l \in AllLanguages :
                StringsXmlPath(l, android_log.default_lang) \in DOMAIN res_fs

----------------------------------------------------------------------------
(* Escaped percent signs *)

\* The positions of the second percent sign of each pair %%, reading from
\* index i to the right: a percent sign followed by another is a pair.
RECURSIVE PairSeconds(_, _)
PairSeconds(t, i) ==
    IF i >= Len(t) THEN {}
    ELSE IF t[i] = "%" /\ t[i + 1] = "%" THEN {i + 1} \cup PairSeconds(t, i + 2)
    ELSE PairSeconds(t, i + 1)

\* The specifiers that do not start inside a pair, and their letters.
RealStarts(t) == SpecStarts(t) \ PairSeconds(t, 1)
RealEnds(t) == {j \in 1..Len(t) : \E i \in RealStarts(t) : IsSpecifier(t, i, j)}

\* The conversion when only those are counted and rewritten.
PairAwareAt(t, i) ==
    LET n == Cardinality(RealStarts(t))
        r == Cardinality({k \in RealStarts(t) : k <= i})
    IN  IF i \in RealStarts(t) /\ n >= 2 THEN <<"%", Digits[r + 1], "$">>
        ELSE IF i \in RealEnds(t) /\ t[i] = "@" THEN <<"s">>
        ELSE <<t[i]>>

RECURSIVE PairAwareFrom(_, _)
PairAwareFrom(t, i) ==
    IF i > Len(t) THEN <<>> ELSE PairAwareAt(t, i) \o PairAwareFrom(t, i + 1)

\* C24: placeholder conversion never treats an escaped percent %% as a
\* specifier: neither percent sign of a pair is counted or rewritten,
\* whatever follows the pair, so the count that decides between the single
\* and the positional rewriting ignores every pair.
C24_EscapedPercentIgnored ==
    esc_pc = "converted" => esc_res = PairAwareFrom(esc_arg, 1)

----------------------------------------------------------------------------
(* The indices of positional specifiers *)

\* A positional specifier starts at i: a percent sign, digits, a dollar
\* sign, an optional precision and a type character.
IsPositional(t, i) ==
    LET e  == DigitsEnd(t, i + 1)
        pe == IF At(t, e + 1) = "." /\ DigitsEnd(t, e + 2) > e + 2
              THEN DigitsEnd(t, e + 2) ELSE e + 1
    IN  /\ At(t, i) = "%"
        /\ e > i + 1 /\ At(t, e) = "$"
        /\ (At(t, pe) = "@" \/ At(t, pe) \in SpecLetters)

PositionalStarts(t) == {i \in 1..Len(t) : IsPositional(t, i)}

\* The index of the positional specifier that starts at i, as written.
IndexAt(t, i) == SubSeq(t, i + 1, DigitsEnd(t, i + 1) - 1)

DistinctIndices(t) ==
    \A i, j \in PositionalStarts(t) : i # j => IndexAt(t, i) # IndexAt(t, j)

\* C28: in every value placeholder conversion returns, the indices of the
\* positional specifiers are pairwise distinct whenever those of the
\* positional specifiers of its input were, also when the input mixes
\* positional specifiers with two or more that are not.
C28_DistinctPositions ==
    (esc_pc = "converted" /\ DistinctIndices(esc_arg)) => DistinctIndices(esc_res)

----------------------------------------------------------------------------
(* extract after apply *)

\* The document holds a value for the key of the section in the language.
HasValue(doc, name, key, lang) ==
    /\ DictHas(doc, name)
    /\ DictHas(DictGet(doc, name), key)
    /\ DictHas(DictGet(DictGet(doc, name), key), lang)

ValueIn(doc, name, key, lang) == DictGet(DictGet(DictGet(doc, name), key), lang)

\* No key of the document lacks a language of the document.
NoMissing(doc) ==
    \A i \in 1..Len(doc) : \A j \in 1..Len(doc[i][2]) :
        DictKeySet(doc[i][2][j][2]) = DocLanguages(doc)

\* The lines of the Android document of language l that are an empty string
\* entry: the names of their keys.
EmptyStringNames(l) ==
    LET lines == DocLines(l)
    IN  {NameOf(lines[n]) : n \in {m \in 1..Len(lines) :
            /\ lines[m][1] = "    <string name="
            /\ SubSeq(lines[m], Len(lines[m]) - 1, Len(lines[m])) = <<">", "</string>">>}}

\* C25: after apply and then extract on the same tree, every key of every
\* section apply wrote has a value for every language of the YAML file: a
\* translation that was missing before apply is extracted as the empty
\* string, so the second YAML file has no missing translation, and an
\* apply_android that follows emits the key for the language as an empty
\* string entry.
C25_ExtractAfterApply ==
    /\ [][(LastCall = "apply" /\ calls' = Append(calls, "extract"))
            => /\ \A name \in KnownSections :
                  \A key \in DictKeySet(DictGet(yaml.sections, name)) :
                  \A l \in AllLanguages :
                      /\ HasValue(yaml'.sections, name, key, l)
                      /\ ValueIn(yaml'.sections, name, key, l) =
                            IF HasValue(yaml.sections, name, key, l)
                            THEN ValueIn(yaml.sections, name, key, l) ELSE <<>>
               /\ NoMissing(yaml'.sections)]_vars
    /\ [](calls = <<"apply", "extract", "apply_android">>
            => \A l \in AloneAtPath :
               \A name \in KnownSections :
               \A key \in DictKeySet(DictGet(yaml.sections, name)) :
                   (HasValue(yaml.sections, name, key, l)
                      /\ ValueIn(yaml.sections, name, key, l) = <<>>)
                   => key \in EmptyStringNames(l))

----------------------------------------------------------------------------
(* The model in memory *)

\* The translations of a model or of a document, as a set of
\* <<section, key, language, value>>.
Quads(sections) ==
    UNION {UNION {{<<sections[i][1], sections[i][2][j][1],
                     sections[i][2][j][2][k][1], sections[i][2][j][2][k][2]>>
                   : k \in 1..Len(sections[i][2][j][2])}
                  : j \in 1..Len(sections[i][2])}
           : i \in 1..Len(sections)}

\* The files of strings_files in the directories of the tree.
SourceFiles == {p \in Paths : p[1] \in lproj_dirs /\ strings_fs[p].exists}

\* The translations the files of the tree hold: for each key of a file, the
\* value of its last entry.
TreeQuads ==
    UNION {{<<p[2], key, p[1], UnescapeStringsValue(RawOf(strings_fs[p].content, key))>>
            : key \in KeysIn(strings_fs[p].content)}
           : p \in SourceFiles}

\* C26: the model in memory never accumulates over the calls on one object:
\* after extract the translations and the plural table hold what the tree
\* holds, after apply and apply_android what the YAML file holds, with no
\* section, key, language or plural group of an earlier call.
C26_NoAccumulation ==
    /\ LastCall = "extract" =>
          /\ Quads(translations) = TreeQuads
          /\ DictKeySet(translations) = {p[2] : p \in SourceFiles}
          /\ \A l \in LangCodes : TableOf(l) = WellFormedOf(l)
          /\ \A i \in 1..Len(plurals) : plurals[i][2] # <<>>
    /\ LastCall = "extract_raised" => translations = <<>> /\ plurals = <<>>
    /\ LastCall \in {"apply", "apply_android"} =>
          /\ Quads(translations) = Quads(yaml.sections)
          /\ DictKeySet(translations) = DictKeySet(yaml.sections)
          /\ plurals = yaml.plurals

\* An extract that loaded translations, after an apply_android that had
\* loaded a section Other and a plural group and written them.
C26_Witness ==
    /\ calls = <<"apply_android", "extract">>
    /\ translations # <<>> /\ plurals = <<>>
    /\ ~DictHas(translations, "Other")
    /\ \E path \in DOMAIN res_fs : \E n \in 1..Len(res_fs[path]) :
          /\ res_fs[path][n] = "    <plurals name="
          /\ \E m \in 1..Len(res_fs[path]) : res_fs[path][m] = "o"

----------------------------------------------------------------------------
(* A section that is not in strings_files *)

\* The sections of the YAML file with another name than the two apply
\* writes, and the languages of their keys.
OtherSections ==
    SelectSeq(yaml.sections, LAMBDA sec : sec[1] \notin {"Localizable", "InfoPlist"})

\* C27: apply writes string tables only for the sections Localizable and
\* InfoPlist.  For a section of the YAML file with another name it creates
\* and modifies no file; the languages of that section are among those the
\* two known sections are written for, and apply_android emits its keys.
C27_OnlyKnownSections ==
    /\ LastCall = "apply" =>
          /\ \A p \in DOMAIN strings_fs :
                p[2] \notin {"Localizable", "InfoPlist"} => strings_fs[p] = prev_fs[p]
          /\ \A name \in {"Localizable", "InfoPlist"} : \A l \in DocLanguages(OtherSections) :
                DictHas(yaml.sections, name) => strings_fs[<<l, name>>].exists
    /\ LastCall = "apply_android" =>
          \A l \in AloneAtPath :
              KeysWithValue(OtherSections, l)
                 \subseteq {StringNames(DocLines(l))[n] : n \in 1..Len(StringNames(DocLines(l)))}

\* An apply of a document whose section Other has a language no other
\* section has: the table of Localizable is created for it, and the file
\* Other.strings of the tree is as it was.
C27_Witness ==
    /\ LastCall = "apply"
    /\ DictHas(yaml.sections, "Localizable") /\ OtherSections # <<>>
    /\ strings_fs[<<EN, "Other">>].exists
    /\ \E l \in DocLanguages(OtherSections) :
          /\ \A i \in 1..Len(yaml.sections) :
                yaml.sections[i][1] = "Other" \/ l \notin DocLanguages(<<yaml.sections[i]>>)
          /\ ~prev_fs[<<l, "Localizable">>].exists
          /\ strings_fs[<<l, "Localizable">>].exists
====
